---------------------------- MODULE Spec2Model ----------------------------
(***************************************************************************)
(* The position lifecycle of the MNQ trading agent.                        *)
(*                                                                         *)
(*   ICTSMCV1Strategy (strategy_v1.py)  the stepped R-multiple state       *)
(*                    machine: generate_signal, open_position,             *)
(*                    update_trade, reset.                                 *)
(*   OrderManager, IBKRMonitor, LiveTradingV2 (trade_v1_live.py)  the live *)
(*                    control loop, its order tracking and the venue       *)
(*                    events it is called back with.                       *)
(*   TradingV1 (trade_v1.py)  the market-order control loop.               *)
(*                                                                         *)
(* `program` says what drives the strategy object: "api" is a caller of    *)
(* its public methods in any order, "live" is LiveTradingV2.run and "v1"   *)
(* is TradingV1.run.  trade_v1_live.py imports the strategy under the name *)
(* ICTSMCV2Strategy; strategy_v1.py defines the class as ICTSMCV1Strategy, *)
(* and that class is the strategy of both loops here.  The venue library   *)
(* (ib_insync) and the bar store are the environment: what they deliver is *)
(* an input of each step.                                                  *)
(*                                                                         *)
(* Units.  Prices are whole index points.  A trail level and a trail_stop  *)
(* are held in tenths of R (1.5R is 15), a confidence in hundredths, an R  *)
(* multiple reported in a result in hundredths of R.  Risk distances are   *)
(* drawn as multiples of four points, so that every stop the state machine *)
(* computes (entry + 0.5R ...) and every price of the grid (quarters of R) *)
(* is a whole number, exactly as the float arithmetic of the code gives.   *)
(***************************************************************************)
EXTENDS Integers, Sequences, FiniteSets, TLC

VARIABLES
    active_trade,       \* ICTSMCV1Strategy.active_trade: None or the position
    last_signal_time,   \* ICTSMCV1Strategy.last_signal_time: None or a datetime
    last,               \* the last strategy call and the value it returned
    opened,             \* the position as open_position last created it
    hist,               \* the update_trade calls made on that position,
                        \* oldest first: the price passed, the dict returned
    signal_times        \* the current_time of every generate_signal call
                        \* that returned a signal since the last reset()

VARIABLES
    program,            \* the driver: "api", "live", "v1", "session", ...
    now,                \* datetime.now() of the last loop iteration
    last_date,          \* run()'s local last_date: None or a day number
    capital,            \* LiveTradingV2.capital
    daily_pnl,          \* daily_pnl of the running loop
    trade_history,      \* LiveTradingV2.trade_history
    monitor_connected,  \* IBKRMonitor.connected
    ib_connected,       \* ib.isConnected()
    orders,             \* OrderManager: active_orders, filled_orders,
                        \* cancelled_orders, each orderId -> entry
    venue,              \* every order placed at the venue: orderId -> order
    tick                \* what the last loop iteration did

VARIABLES
    account_equity,     \* RiskManager.account_equity
    daily_loss,         \* RiskManager.daily_loss
    account_info,       \* the arguments of RiskManager's last
                        \* update_account_info, None before the first
    data_manager,       \* DataManager: ib, df_1min, and timeframes, the
                        \* derived frames as last aggregated
    live_file,          \* the live 1-minute CSV: whether it exists, its rows
    current_position    \* current_position of the CLAWAIBKRMNQ or
                        \* CLAWAMultiTimeframe object, in contracts, signed

VARIABLES
    running,            \* self.running of the loop object
    signalled,          \* SIGINT or SIGTERM has been delivered to the process
    failed_reconnects   \* ib.reconnect() calls that raised since the
                        \* connection was last up

stratVars == <<active_trade, last_signal_time, last, opened, hist, signal_times>>

sessionVars == <<running, signalled, failed_reconnects>>

loopVars == <<now, last_date, capital, daily_pnl, trade_history,
              monitor_connected, ib_connected, orders, venue, tick,
              running, signalled, failed_reconnects>>

dataVars == <<data_manager, live_file>>

libVars == <<account_equity, daily_loss, account_info, data_manager, live_file,
             current_position>>

vars == <<program, active_trade, last_signal_time, last, opened, hist,
          signal_times,
          now, last_date, capital, daily_pnl, trade_history,
          monitor_connected, ib_connected, orders, venue, tick,
          account_equity, daily_loss, account_info, data_manager, live_file,
          current_position,
          running, signalled, failed_reconnects>>

-----------------------------------------------------------------------------
(* Bounds of the exploration.                                              *)

MaxHist == 4        \* update_trade calls followed per position
MaxSize == 2        \* largest position size passed to open_position

-----------------------------------------------------------------------------
(* Python values.                                                          *)

(* None where a dict, a signal or a datetime is expected; a datetime is    *)
(* the record [hours |-> n], n whole hours since midnight of day 0.        *)
None == [none |-> TRUE]

(* None where a direction string or a session name is expected.            *)
NoDirection == "none"
NoSession == "none"

At(n) == [hours |-> n]

Sign(action) == IF action = "BUY" THEN 1 ELSE -1

Min(a, b) == IF a <= b THEN a ELSE b

-----------------------------------------------------------------------------
(* ICTSMCV1Strategy.__init__: the trail table, in ascending level order as *)
(* sorted(self.TRAIL_LEVELS.items()) walks it.                             *)

TRAIL_LEVELS ==
    << [level |-> 15, action |-> "partial", trail_stop |-> 5],
       [level |-> 20, action |-> "trail",   trail_stop |-> 10],
       [level |-> 30, action |-> "trail",   trail_stop |-> 20],
       [level |-> 40, action |-> "close",   trail_stop |-> 30] >>

(* The contract multiplier written as the literal 2 in every P&L line.     *)
Multiplier == 2

(* The buffer, in points, generate_signal puts beyond the liquidity level. *)
StopBuffer == 5

-----------------------------------------------------------------------------
(* ICTSMCV1Strategy.update_trade.                                          *)

(* The favourable price movement: the numerator of unrealized_rr.          *)
Move(t, price) ==
    IF t.action = "BUY" THEN price - t.entry_price ELSE t.entry_price - price

(* unrealized_rr, reported in the result, in hundredths of R.              *)
unrealized_rr(t, price) == (100 * Move(t, price)) \div t.risk_distance

(* LevelFires without the trail_level guard.                               *)
LevelFires_NoGuard(t, price, level) ==
    10 * Move(t, price) >= level * t.risk_distance

(* unrealized_rr >= level and t['trail_level'] < level (level in tenths;   *)
(* risk_distance is positive in every signal).                             *)
LevelFires(t, price, level) ==
    /\ 10 * Move(t, price) >= level * t.risk_distance
    /\ t.trail_level < level

(* TrailStop with the level itself taken for the stop distance.            *)
TrailStop_AtLevel(t, trail_stop) ==
    t.entry_price + Sign(t.action) * ((t.risk_distance * (trail_stop + 10)) \div 10)

(* entry +/- risk * config['trail_stop'].                                  *)
TrailStop(t, trail_stop) ==
    t.entry_price + Sign(t.action) * ((t.risk_distance * trail_stop) \div 10)

(* The partial branch recording the closed half without taking it off the  *)
(* remaining size.                                                         *)
PartialClose_SizeKept(t, price, cfg) ==
    LET half == t.size \div 2
        t2 == [t EXCEPT !.partial_filled = TRUE,
                        !.partial_size = half,
                        !.stop_loss = TrailStop(t, cfg.trail_stop)]
    IN  [trade  |-> t2,
         result |-> [action |-> "partial_close", size |-> t2.partial_size,
                     price |-> price, rr |-> unrealized_rr(t, price),
                     new_stop_loss |-> t2.stop_loss]]

(* The partial branch: half the size moves to partial_size, the stop moves.*)
PartialClose(t, price, cfg) ==
    LET half == t.size \div 2
        t2 == [t EXCEPT !.partial_filled = TRUE,
                        !.partial_size = half,
                        !.size = t.size - half,
                        !.stop_loss = TrailStop(t, cfg.trail_stop)]
    IN  [trade  |-> t2,
         result |-> [action |-> "partial_close", size |-> t2.partial_size,
                     price |-> price, rr |-> unrealized_rr(t, price),
                     new_stop_loss |-> t2.stop_loss]]

(* TrailMove that reports the new stop and leaves the position's stop.     *)
TrailMove_StopKept(t, price, cfg) ==
    [trade  |-> t,
     result |-> [action |-> "trail_stop",
                 new_stop_loss |-> TrailStop(t, cfg.trail_stop),
                 rr |-> unrealized_rr(t, price)]]

(* The trail branch: only the stop moves.                                  *)
TrailMove(t, price, cfg) ==
    LET t2 == [t EXCEPT !.stop_loss = TrailStop(t, cfg.trail_stop)]
    IN  [trade  |-> t2,
         result |-> [action |-> "trail_stop", new_stop_loss |-> t2.stop_loss,
                     rr |-> unrealized_rr(t, price)]]

(* P&L of both tranches for an exit at the signed distance `points`.       *)
TranchePnl(t, points) ==
    points * t.size * Multiplier
    + (IF t.partial_size > 0 THEN points * t.partial_size * Multiplier ELSE 0)

(* The close branch of the level loop: (take_profit - entry) for either    *)
(* direction, as the code writes it.  The reason string is '4R' followed   *)
(* by the Chinese for take-profit.                                         *)
TakeProfitClose(t, price) ==
    [trade  |-> None,
     result |-> [action |-> "close",
                 pnl |-> TranchePnl(t, t.take_profit - t.entry_price),
                 rr |-> unrealized_rr(t, price), reason |-> "4R take-profit"]]

(* for level, config in sorted(self.TRAIL_LEVELS.items()): the first level *)
(* that fires returns; result None means the loop ran to its end.          *)
RECURSIVE LevelLoop(_, _, _)
LevelLoop(t, price, i) ==
    IF i > Len(TRAIL_LEVELS) THEN [trade |-> t, result |-> None]
    ELSE LET cfg == TRAIL_LEVELS[i] IN
         IF LevelFires(t, price, cfg.level)
         THEN LET t1 == [t EXCEPT !.trail_level = cfg.level] IN
              IF cfg.action = "partial" /\ ~t1.partial_filled
                  THEN PartialClose(t1, price, cfg)
              ELSE IF cfg.action = "trail" THEN TrailMove(t1, price, cfg)
              ELSE IF cfg.action = "close" THEN TakeProfitClose(t1, price)
              ELSE LevelLoop(t1, price, i + 1)
         ELSE LevelLoop(t, price, i + 1)

(* StopHit with strict comparisons.                                        *)
StopHit_Strict(t, price) ==
    IF t.action = "BUY" THEN price < t.stop_loss ELSE price > t.stop_loss

(* current_price <= stop_loss for BUY, >= for SELL.                        *)
StopHit(t, price) ==
    IF t.action = "BUY" THEN price <= t.stop_loss ELSE price >= t.stop_loss

(* The stop-loss exit: (stop_loss - entry) in the position's direction.    *)
(* The reason string is the Chinese for stop-loss.                         *)
StopLossClose(t, price) ==
    [trade  |-> None,
     result |-> [action |-> "close",
                 pnl |-> TranchePnl(t, Sign(t.action) * (t.stop_loss - t.entry_price)),
                 rr |-> unrealized_rr(t, price), reason |-> "stop-loss"]]

(* update_trade(current_price, current_time): the strategy's next          *)
(* active_trade and the dict it returns.                                   *)
update_trade(t, price) ==
    IF t = None THEN [trade |-> None, result |-> [action |-> "hold"]]
    ELSE LET r == LevelLoop(t, price, 1) IN
         IF r.result # None THEN r
         ELSE IF StopHit(r.trade, price) THEN StopLossClose(r.trade, price)
         ELSE [trade  |-> r.trade,
               result |-> [action |-> "hold",
                           current_rr |-> unrealized_rr(t, price)]]

-----------------------------------------------------------------------------
(* ICTSMCV1Strategy.open_position and reset.                               *)

NewTrade(signal, position_size) ==
    [action |-> signal.action, entry_price |-> signal.entry_price,
     stop_loss |-> signal.stop_loss, take_profit |-> signal.take_profit,
     risk_distance |-> signal.risk_distance, size |-> position_size,
     trail_level |-> 0, partial_filled |-> FALSE, partial_size |-> 0]

(* open_position that replaces the position it is called on.               *)
open_position_Overwrite(t, signal, position_size) ==
    [trade |-> NewTrade(signal, position_size),
     ret |-> NewTrade(signal, position_size)]

(* open_position(signal, position_size): None while a position is open.   *)
open_position(t, signal, position_size) ==
    IF t # None THEN [trade |-> t, ret |-> None]
    ELSE [trade |-> NewTrade(signal, position_size),
          ret |-> NewTrade(signal, position_size)]

(* get_status()['status'].                                                 *)
get_status(t) == IF t # None THEN "active" ELSE "idle"

(* reset(): no position, no last signal time.                              *)
reset == [trade |-> None, last_signal_time |-> None]

-----------------------------------------------------------------------------
(* ICTSMCV1Strategy.is_trading_session: 07:00 - 20:00.                     *)

SessionStart == 7
SessionEnd == 20

is_trading_session(dt) ==
    LET hour == dt.hours % 24 IN
    IF hour >= SessionStart /\ hour < SessionEnd THEN "extended" ELSE NoSession

-----------------------------------------------------------------------------
(* ICTSMCV1Strategy.analyze_multi_timeframe and generate_signal.           *)
(*                                                                         *)
(* The market data handed to the strategy is the record                    *)
(*   keys       the timeframe names `tf in data` finds,                    *)
(*   len        timeframe -> number of bars,                               *)
(*   structure  timeframe -> what analyze_market_structure returns for a   *)
(*              frame of at least 5 bars (trend, bos, choch),              *)
(*   fvgs       timeframe -> what detect_fvg returns (type, low, high),    *)
(*   liquidity  what find_liquidity returns for the 15min frame.           *)

Timeframes == {"4hr", "1hr", "15min", "5min"}

(* self.analyze_market_structure(data[tf]): 'unknown' below 5 bars.        *)
analyze_market_structure(mkt, tf) ==
    IF mkt.len[tf] < 5 THEN [trend |-> "unknown", bos |-> FALSE, choch |-> FALSE]
    ELSE mkt.structure[tf]

(* Steps 1-3: the trend of a timeframe, 'unknown' unless the frame is      *)
(* present with at least `need` bars.                                      *)
TrendOf(mkt, tf, need) ==
    IF tf \in mkt.keys /\ mkt.len[tf] >= need
    THEN analyze_market_structure(mkt, tf).trend ELSE "unknown"

(* Step 4: some frame among 1hr, 15min, 5min has a gap.                    *)
fvg_aligned(mkt) ==
    \E tf \in {"1hr", "15min", "5min"} : tf \in mkt.keys /\ mkt.fvgs[tf] # <<>>

(* Step 6: direction and confidence from the three trends.                 *)
analyze_multi_timeframe(mkt) ==
    LET t4  == TrendOf(mkt, "4hr", 5)
        t1  == TrendOf(mkt, "1hr", 5)
        t15 == TrendOf(mkt, "15min", 10)
        dc  == IF t4 = "bullish" /\ t1 \in {"bullish", "ranging"} /\ t15 = "bullish"
                   THEN <<"BUY", 85>>
               ELSE IF t4 = "bearish" /\ t1 \in {"bearish", "ranging"} /\ t15 = "bearish"
                   THEN <<"SELL", 85>>
               ELSE IF t15 = "bullish" /\ fvg_aligned(mkt) THEN <<"BUY", 60>>
               ELSE IF t15 = "bearish" /\ fvg_aligned(mkt) THEN <<"SELL", 60>>
               ELSE <<NoDirection, 0>>
    IN  [trend_4hr |-> t4, trend_1hr |-> t1, trend_15min |-> t15,
         fvg_aligned |-> fvg_aligned(mkt),
         has_liquidity |-> "15min" \in mkt.keys,
         direction |-> dc[1], confidence |-> dc[2]]

(* fvgs[-n:]                                                               *)
LastN(seq, n) ==
    IF Len(seq) <= n THEN seq ELSE SubSeq(seq, Len(seq) - n + 1, Len(seq))

(* The loop over fvgs[-5:]: a gap of the signal's direction whose zone,    *)
(* widened by 10 points on the far side, holds the current price.          *)
valid_fvg(fvgs, direction, price) ==
    \E i \in DOMAIN LastN(fvgs, 5) :
        LET fvg == LastN(fvgs, 5)[i] IN
        \/ direction = "BUY" /\ fvg.type = "bullish"
              /\ fvg.low <= price /\ price <= fvg.high + 10
        \/ direction = "SELL" /\ fvg.type = "bearish"
              /\ fvg.high >= price /\ price >= fvg.low - 10

(* current_time - last_signal_time under 300 seconds (times in hours).     *)
WithinFiveMinutes(lst, time) == (time.hours - lst.hours) * 3600 < 300

(* The signal dict of the return statement.                                *)
MakeSignal(mtf, direction, price, stop_loss, risk_distance, confidence) ==
    [action |-> direction, entry_price |-> price, stop_loss |-> stop_loss,
     risk_distance |-> risk_distance,
     take_profit |-> IF direction = "BUY" THEN price + risk_distance * 4
                     ELSE price - risk_distance * 4,
     confidence |-> Min(confidence, 100),
     trend_4hr |-> mtf.trend_4hr, trend_1hr |-> mtf.trend_1hr,
     trend_15min |-> mtf.trend_15min]

(* generate_signal(data, current_price, current_time) on a strategy whose  *)
(* position is t and whose last signal time is lst: the value returned and *)
(* the last signal time afterwards.                                        *)
generate_signal(t, lst, mkt, price, time) ==
    LET no  == [ret |-> None, last_signal_time |-> lst]
        mtf == analyze_multi_timeframe(mkt)
        dir == mtf.direction
        f15 == IF "15min" \in mkt.keys THEN mkt.fvgs["15min"] ELSE <<>>
        high_liq == IF mtf.has_liquidity THEN mkt.liquidity.high ELSE price
        low_liq  == IF mtf.has_liquidity THEN mkt.liquidity.low ELSE price
        risk == IF dir = "BUY" THEN price - low_liq + StopBuffer
                ELSE high_liq + StopBuffer - price
        stop == IF dir = "BUY" THEN low_liq - StopBuffer ELSE high_liq + StopBuffer
        s15  == analyze_market_structure(mkt, "15min")
        conf == Min(mtf.confidence + 10 * Len(LastN(f15, 10)), 95)
                + (IF s15.bos THEN 10 ELSE 0) + (IF s15.choch THEN 5 ELSE 0)
    IN  IF t # None THEN no
        ELSE IF lst # None /\ time # None /\ WithinFiveMinutes(lst, time) THEN no
        ELSE IF dir = NoDirection \/ mtf.confidence < 50 THEN no
        ELSE IF "15min" \notin mkt.keys \/ mkt.len["15min"] < 20 THEN no
        ELSE IF ~valid_fvg(f15, dir, price) THEN no
        ELSE IF dir = "BUY" /\ high_liq <= price THEN no
        ELSE IF dir = "SELL" /\ low_liq >= price THEN no
        ELSE IF risk <= 0 THEN no
        ELSE [ret |-> MakeSignal(mtf, dir, price, stop, risk, conf),
              last_signal_time |-> time]

-----------------------------------------------------------------------------
(* Bar analysis on frames of bars (strategy_v1.py, ict_smc_strategy.py,    *)
(* multi_timeframe_strategy.py).  A frame is the sequence of its bars;     *)
(* data[i] is the code's data.iloc[i - 1].  Sensitivities are in tenths.   *)

FVG_SENSITIVITY == 8

RECURSIVE SeqSum(_)
SeqSum(q) == IF q = <<>> THEN 0 ELSE Head(q) + SeqSum(Tail(q))

(* prev, middle and curr of the loop body at position i (i >= 3).          *)
RangeSum(data, i) ==
    (data[i - 2].high - data[i - 2].low) + (data[i - 1].high - data[i - 1].low)
        + (data[i].high - data[i].low)

(* gap > avg_range * sensitivity with avg_range = RangeSum / 3.            *)
GapPasses(gap, data, i, sensitivity) == 30 * gap > sensitivity * RangeSum(data, i)

(* The loop body of ICTSMCV1Strategy.detect_fvg at position i: the dict    *)
(* appended, or None.                                                      *)
FvgAt(data, i, sensitivity) ==
    IF data[i].low > data[i - 2].high
    THEN IF GapPasses(data[i].low - data[i - 2].high, data, i, sensitivity)
         THEN [type |-> "bullish", low |-> data[i - 2].high, high |-> data[i].low,
               gap |-> data[i].low - data[i - 2].high, index |-> i - 1]
         ELSE None
    ELSE IF data[i].high < data[i - 2].low
    THEN IF GapPasses(data[i - 2].low - data[i].high, data, i, sensitivity)
         THEN [type |-> "bearish", low |-> data[i].high, high |-> data[i - 2].low,
               gap |-> data[i - 2].low - data[i].high, index |-> i - 1]
         ELSE None
    ELSE None

(* The loop body without the test of the gap against the average range.    *)
FvgAt_NoMagnitude(data, i, sensitivity) ==
    IF data[i].low > data[i - 2].high
    THEN [type |-> "bullish", low |-> data[i - 2].high, high |-> data[i].low,
          gap |-> data[i].low - data[i - 2].high, index |-> i - 1]
    ELSE IF data[i].high < data[i - 2].low
    THEN [type |-> "bearish", low |-> data[i].high, high |-> data[i - 2].low,
          gap |-> data[i - 2].low - data[i].high, index |-> i - 1]
    ELSE None

IsRecorded(x) == x # None

(* detect_fvg with the gaps of all positions recorded.                     *)
detect_fvg_NoMagnitude(data, sensitivity) ==
    IF Len(data) < 3 THEN <<>>
    ELSE SelectSeq([k \in 1..(Len(data) - 2) |->
                       FvgAt_NoMagnitude(data, k + 2, sensitivity)], IsRecorded)

(* ICTSMCV1Strategy.detect_fvg(data, sensitivity): for i in range(2, len). *)
detect_fvg(data, sensitivity) ==
    IF Len(data) < 3 THEN <<>>
    ELSE SelectSeq([k \in 1..(Len(data) - 2) |-> FvgAt(data, k + 2, sensitivity)],
                   IsRecorded)

(* MultiTimeframeStrategy._get_fvg_sensitivity.                            *)
get_fvg_sensitivity(timeframe) ==
    IF timeframe = "daily" THEN 5
    ELSE IF timeframe = "hourly" THEN 6
    ELSE IF timeframe = "five_min" THEN 7
    ELSE IF timeframe = "one_min" THEN 8
    ELSE 7

(* The loop body of MultiTimeframeStrategy._detect_fvg at position i.      *)
MTF_FvgAt(data, i, timeframe) ==
    IF data[i].low > data[i - 2].high
    THEN IF GapPasses(data[i].low - data[i - 2].high, data, i,
                      get_fvg_sensitivity(timeframe))
         THEN [type |-> "bullish", start_price |-> data[i - 2].high,
               end_price |-> data[i].low,
               gap_size |-> data[i].low - data[i - 2].high, timeframe |-> timeframe]
         ELSE None
    ELSE IF data[i].high < data[i - 2].low
    THEN IF GapPasses(data[i - 2].low - data[i].high, data, i,
                      get_fvg_sensitivity(timeframe))
         THEN [type |-> "bearish", start_price |-> data[i].high,
               end_price |-> data[i - 2].low,
               gap_size |-> data[i - 2].low - data[i].high, timeframe |-> timeframe]
         ELSE None
    ELSE None

(* MultiTimeframeStrategy._detect_fvg(data, timeframe).                    *)
MTF_detect_fvg(data, timeframe) ==
    IF Len(data) < 3 THEN <<>>
    ELSE SelectSeq([k \in 1..(Len(data) - 2) |-> MTF_FvgAt(data, k + 2, timeframe)],
                   IsRecorded)

(* The trend test shared by the analyze_market_structure methods: the last *)
(* bar against the one before.                                             *)
TrendOfLastTwo(data) ==
    IF data[Len(data)].high > data[Len(data) - 1].high
          /\ data[Len(data)].low > data[Len(data) - 1].low THEN "bullish"
    ELSE IF data[Len(data)].high < data[Len(data) - 1].high
          /\ data[Len(data)].low < data[Len(data) - 1].low THEN "bearish"
    ELSE "ranging"

(* The trend of ICTSMCV1Strategy.analyze_market_structure(data): 'unknown' *)
(* below 5 bars.                                                           *)
V1_structure_trend(data) ==
    IF Len(data) < 5 THEN "unknown" ELSE TrendOfLastTwo(data)

(* The trend of ICTSMCStrategy.analyze_market_structure(data): 'unknown'   *)
(* below 3 bars.                                                           *)
ICTSMC_structure_trend(data) ==
    IF Len(data) < 3 THEN "unknown" ELSE TrendOfLastTwo(data)

(* data['close'].rolling(w).mean().iloc[-1] as the sum of the last w       *)
(* closes (the mean times w); NaN (None) on fewer than w rows.             *)
rolling_mean_last(data, w) ==
    IF Len(data) < w THEN None
    ELSE [sum |-> SeqSum([k \in 1..w |-> data[Len(data) - w + k].close])]

(* MultiTimeframeStrategy._determine_trend(data): the last close against   *)
(* the 20- and 50-bar means; a comparison with NaN is False.  On an empty  *)
(* frame iloc[-1] raises IndexError.                                       *)
determine_trend(data) ==
    IF Len(data) = 0 THEN "IndexError"
    ELSE IF rolling_mean_last(data, 50) = None THEN "ranging"
    ELSE IF data[Len(data)].close * 20 > rolling_mean_last(data, 20).sum
            /\ rolling_mean_last(data, 20).sum * 50 > rolling_mean_last(data, 50).sum * 20
        THEN "bullish"
    ELSE IF data[Len(data)].close * 20 < rolling_mean_last(data, 20).sum
            /\ rolling_mean_last(data, 20).sum * 50 < rolling_mean_last(data, 50).sum * 20
        THEN "bearish"
    ELSE "ranging"

-----------------------------------------------------------------------------
(* RiskManagerV1 (strategy_v1.py), with Config's defaults.                 *)

MAX_POSITION_SIZE == 10
RISK_PERCENTAGE == 1
DAILY_LOSS_LIMIT == 3
MinCapital == 1000

Abs(x) == IF x < 0 THEN -x ELSE x

(* calculate_position_size without the max_position cap.                  *)
calculate_position_size_Unclamped(cap, entry_price, stop_loss) ==
    IF cap <= 0 THEN 0
    ELSE LET risk_per_contract == Abs(entry_price - stop_loss) * Multiplier IN
         IF risk_per_contract <= 0 THEN 1
         ELSE (cap * RISK_PERCENTAGE) \div (100 * risk_per_contract)

(* calculate_position_size: int(capital * risk_pct / 100 / (|entry -       *)
(* stop| * 2)), at most max_position; 1 when entry = stop.                 *)
calculate_position_size(cap, entry_price, stop_loss) ==
    IF cap <= 0 THEN 0
    ELSE LET risk_per_contract == Abs(entry_price - stop_loss) * Multiplier IN
         IF risk_per_contract <= 0 THEN 1
         ELSE Min((cap * RISK_PERCENTAGE) \div (100 * risk_per_contract),
                  MAX_POSITION_SIZE)

(* should_trade without the daily limit.                                   *)
should_trade_NoDailyLimit(cap, pnl) ==
    IF cap < MinCapital THEN FALSE ELSE TRUE

(* should_trade: |daily_pnl| below capital * DAILY_LOSS_LIMIT / 100 and    *)
(* capital at least 1000.                                                  *)
should_trade(cap, pnl) ==
    IF 100 * Abs(pnl) >= cap * DAILY_LOSS_LIMIT THEN FALSE
    ELSE IF cap < MinCapital THEN FALSE
    ELSE TRUE

-----------------------------------------------------------------------------
(* RiskManager (risk_management.py), the risk manager of the CLAWAIBKRMNQ  *)
(* and CLAWAMultiTimeframe loops.  It keeps the equity and the day's loss  *)
(* it was last told.                                                       *)

Max(a, b) == IF a >= b THEN a ELSE b

(* update_account_info(equity, daily_pnl): daily_loss is |daily_pnl| for a *)
(* negative daily_pnl and 0 otherwise.                                     *)
update_account_info(equity, pnl) ==
    [account_equity |-> equity,
     daily_loss |-> IF pnl < 0 THEN Abs(pnl) ELSE 0]

(* RiskManager.calculate_position_size(entry_price, stop_loss).            *)
RiskManager_calculate_position_size(equity, entry_price, stop_loss) ==
    IF equity <= 0 THEN 0
    ELSE LET risk_per_contract == Abs(entry_price - stop_loss) * Multiplier IN
         IF risk_per_contract <= 0 THEN 0
         ELSE Max(Min((equity * RISK_PERCENTAGE) \div (100 * risk_per_contract),
                      MAX_POSITION_SIZE), 0)

(* RiskManager.should_trade().                                             *)
RiskManager_should_trade(equity, loss) ==
    IF 100 * loss >= equity * DAILY_LOSS_LIMIT THEN FALSE
    ELSE IF equity < MinCapital THEN FALSE
    ELSE TRUE

(* validate_order testing the signed position in place of its magnitude.   *)
validate_order_SignedPosition(position_size, position) ==
    position + position_size <= MAX_POSITION_SIZE

(* RiskManager.validate_order(position_size, current_position).            *)
validate_order(position_size, position) ==
    Abs(position) + position_size <= MAX_POSITION_SIZE

-----------------------------------------------------------------------------
(* DataManager (data_manager.py).  A frame is the sequence of its rows in  *)
(* index order; a row is a bar with its timestamp `date` in minutes.       *)

Retention == 5      \* rows tail() keeps of the 1-minute series (the code
                    \* keeps 2880)

NoFrame == <<>>

Dates(df) == { df[i].date : i \in DOMAIN df }

(* The rows of df at the positions idx, in position order.                 *)
Take(df, idx) ==
    [k \in 1..Cardinality(idx) |->
        df[CHOOSE i \in idx : Cardinality({ j \in idx : j <= i }) = k]]

(* df[~df.index.duplicated(keep='last')]: of the rows of one timestamp the *)
(* last stays, at its place.                                               *)
drop_duplicates_keep_last(df) ==
    Take(df, { i \in DOMAIN df :
                 \A j \in DOMAIN df : j > i => df[j].date # df[i].date })

(* sort_index() on a frame without duplicate timestamps.                   *)
sort_index(df) ==
    [k \in 1..Len(df) |->
        df[CHOOSE i \in DOMAIN df :
              Cardinality({ j \in DOMAIN df : df[j].date <= df[i].date }) = k]]

(* tail(n).                                                                *)
tail(df, n) == SubSeq(df, Max(1, Len(df) - n + 1), Len(df))

(* pd.concat([a, b]).                                                      *)
concat(a, b) == a \o b

(* The minutes of a resample frequency: '5min', '15min', '60min' for 1hr,  *)
(* '240min' for 4hr.                                                       *)
Freq == [tf \in {"5min", "15min", "1hr", "4hr"} |->
            IF tf = "5min" THEN 5 ELSE IF tf = "15min" THEN 15
            ELSE IF tf = "1hr" THEN 60 ELSE 240]

(* The window of a timestamp: the start of its bin.                        *)
Window(date, freq) == (date \div freq) * freq

SetMax(S) == CHOOSE x \in S : \A y \in S : y <= x
SetMin(S) == CHOOSE x \in S : \A y \in S : x <= y

(* agg with close taken from the first row.                                *)
agg_CloseFirst(rows, start) ==
    [date |-> start,
     open |-> rows[1].open,
     high |-> SetMax({ rows[i].high : i \in DOMAIN rows }),
     low |-> SetMin({ rows[i].low : i \in DOMAIN rows }),
     close |-> rows[1].close,
     volume |-> SeqSum([i \in DOMAIN rows |-> rows[i].volume])]

(* agg({'open': 'first', 'high': 'max', 'low': 'min', 'close': 'last',     *)
(* 'volume': 'sum'}) over the rows of one bin.                             *)
agg(rows, start) ==
    [date |-> start,
     open |-> rows[1].open,
     high |-> SetMax({ rows[i].high : i \in DOMAIN rows }),
     low |-> SetMin({ rows[i].low : i \in DOMAIN rows }),
     close |-> rows[Len(rows)].close,
     volume |-> SeqSum([i \in DOMAIN rows |-> rows[i].volume])]

(* _resample_dataframe(df, freq) on a time-ordered frame: one row per bin  *)
(* that holds a row; the bins between that hold none are dropped by        *)
(* dropna().                                                               *)
resample_dataframe(df, freq) ==
    IF df = NoFrame THEN NoFrame
    ELSE LET starts == { Window(df[i].date, freq) : i \in DOMAIN df }
             nth(k) == CHOOSE w \in starts :
                           Cardinality({ x \in starts : x <= w }) = k
         IN  [k \in 1..Cardinality(starts) |->
                 agg(Take(df, { i \in DOMAIN df :
                                  Window(df[i].date, freq) = nth(k) }),
                     nth(k))]

(* _aggregate_all_timeframes: nothing changes for an empty 1-minute frame. *)
aggregate_all_timeframes(dm) ==
    IF dm.df_1min = NoFrame THEN dm
    ELSE [dm EXCEPT !.timeframes =
             [tf \in DOMAIN Freq |-> resample_dataframe(dm.df_1min, Freq[tf])]]

(* A CSV file: absent, or its rows.                                        *)
NoFile == [exists |-> FALSE, rows |-> NoFrame]
File(rows) == [exists |-> TRUE, rows |-> rows]

(* The venue client handed to initialize.                                  *)
TheIB == [client |-> "ib"]

(* _load_historical_data: the historical file as it is, then the live file *)
(* merged over it.                                                         *)
load_historical_data(dm, historical, live) ==
    LET d1 == IF historical.exists THEN historical.rows ELSE dm.df_1min IN
    IF live.exists
    THEN IF d1 # NoFrame
         THEN [dm EXCEPT !.df_1min =
                  tail(sort_index(drop_duplicates_keep_last(concat(d1, live.rows))),
                       Retention)]
         ELSE [dm EXCEPT !.df_1min = tail(live.rows, Retention)]
    ELSE [dm EXCEPT !.df_1min = d1]

(* _sync_latest_data: skipped when not connected or when the venue returns *)
(* no bars; otherwise merged in, cut to the retention and saved.           *)
sync_latest_data(dm, live, connected, bars) ==
    IF ~connected \/ bars = NoFrame THEN [dm |-> dm, live |-> live]
    ELSE LET combined ==
                 IF dm.df_1min # NoFrame
                 THEN sort_index(drop_duplicates_keep_last(concat(dm.df_1min, bars)))
                 ELSE bars
         IN  [dm |-> [dm EXCEPT !.df_1min = tail(combined, Retention)],
              live |-> File(tail(combined, Retention))]

(* initialize(ib, contract): load, sync, aggregate.                        *)
initialize(dm, historical, live, connected, bars) ==
    LET synced == sync_latest_data(
                      load_historical_data([dm EXCEPT !.ib = TheIB], historical, live),
                      live, connected, bars)
    IN  [dm |-> aggregate_all_timeframes(synced.dm), live |-> synced.live]

(* update without the `new_time <= last_time` test.                        *)
update_NoTimeTest(dm, live, connected, bars) ==
    IF ~connected \/ bars = NoFrame THEN [dm |-> dm, live |-> live, ret |-> FALSE]
    ELSE LET kept == tail(drop_duplicates_keep_last(
                              concat(dm.df_1min, <<bars[Len(bars)]>>)), Retention)
         IN  [dm |-> aggregate_all_timeframes([dm EXCEPT !.df_1min = kept]),
              live |-> File(kept), ret |-> TRUE]

(* update(): the last bar the venue returns is appended when it is newer   *)
(* than the last row; then duplicates are dropped, the frame is cut to the *)
(* retention, saved and re-aggregated.                                     *)
update(dm, live, connected, bars) ==
    IF ~connected \/ bars = NoFrame THEN [dm |-> dm, live |-> live, ret |-> FALSE]
    ELSE IF dm.df_1min # NoFrame
            /\ bars[Len(bars)].date <= dm.df_1min[Len(dm.df_1min)].date
        THEN [dm |-> dm, live |-> live, ret |-> FALSE]
    ELSE LET kept == tail(drop_duplicates_keep_last(
                              concat(dm.df_1min, <<bars[Len(bars)]>>)), Retention)
         IN  [dm |-> aggregate_all_timeframes([dm EXCEPT !.df_1min = kept]),
              live |-> File(kept), ret |-> TRUE]

-----------------------------------------------------------------------------
(* OrderManager (trade_v1_live.py).  `orders` is the record of its three   *)
(* dicts; `venue` maps each orderId the venue has been given to the order  *)
(* and its status there.                                                   *)

NoOrders == [active |-> <<>>, filled |-> <<>>, cancelled |-> <<>>]

Opposite(action) == IF action = "BUY" THEN "SELL" ELSE "BUY"

(* dict[key] = value, and del dict[key].                                   *)
Put(d, k, v) == [x \in DOMAIN d \cup {k} |-> IF x = k THEN v ELSE d[x]]
Del(d, k) == [x \in DOMAIN d \ {k} |-> d[x]]

(* create_bracket_order: parent, stopLoss, takeProfit.  The stop is built  *)
(* with the entry's action.                                                *)
create_bracket_order(signal, size) ==
    << [action |-> signal.action, size |-> size, orderType |-> "LMT",
        price |-> signal.entry_price],
       [action |-> signal.action, size |-> size, orderType |-> "STP",
        price |-> signal.stop_loss],
       [action |-> Opposite(signal.action), size |-> size, orderType |-> "LMT",
        price |-> signal.take_profit] >>

BracketTypes == <<"parent", "stop", "profit">>

(* ib.placeOrder: the venue library numbers the order and holds it as      *)
(* Submitted.                                                              *)
placeOrder(v, order) == Append(v, order @@ [status |-> "Submitted"])

(* submit_bracket_order: the three orders are placed and tracked one after *)
(* the other; placeOrder raising at the fail_at-th (0: never) ends the     *)
(* loop there and returns False.                                           *)
RECURSIVE SubmitFrom(_, _, _, _, _)
SubmitFrom(om, v, bracket, i, fail_at) ==
    IF i > Len(bracket) THEN [orders |-> om, venue |-> v, ok |-> TRUE]
    ELSE IF i = fail_at THEN [orders |-> om, venue |-> v, ok |-> FALSE]
    ELSE LET v2 == placeOrder(v, bracket[i])
             id == Len(v2)
             om2 == [om EXCEPT !.active =
                        Put(om.active, id,
                            [action |-> bracket[i].action,
                             size |-> bracket[i].size,
                             type |-> BracketTypes[i]])]
         IN  SubmitFrom(om2, v2, bracket, i + 1, fail_at)

submit_bracket_order(om, v, bracket, fail_at) ==
    SubmitFrom(om, v, bracket, 1, fail_at)

(* update_order_status(trade): a Filled or Cancelled status moves a        *)
(* tracked order out of active_orders; anything else changes nothing.      *)
update_order_status(om, id, status) ==
    IF id \notin DOMAIN om.active THEN om
    ELSE IF status = "Filled"
        THEN [om EXCEPT !.filled = Put(om.filled, id, om.active[id]),
                        !.active = Del(om.active, id)]
    ELSE IF status = "Cancelled"
        THEN [om EXCEPT !.cancelled = Put(om.cancelled, id, om.active[id]),
                        !.active = Del(om.active, id)]
    ELSE om

(* get_active_count.                                                       *)
get_active_count(om) == Cardinality(DOMAIN om.active)

(* ib.cancelOrder: the venue is asked to cancel; the order stays live      *)
(* there until the venue confirms.                                         *)
cancelOrder(v, id) ==
    IF v[id].status = "Submitted" THEN [v EXCEPT ![id].status = "PendingCancel"]
    ELSE v

(* cancel_all: every active order is sent a cancel; those whose cancel did *)
(* not raise are dropped from active_orders.                               *)
cancel_all(om, v, raising) ==
    LET cancelled == DOMAIN om.active \ raising IN
    [orders |-> [om EXCEPT !.active = [x \in DOMAIN om.active \ cancelled |->
                                          om.active[x]]],
     venue  |-> [x \in DOMAIN v |->
                    IF x \in cancelled THEN cancelOrder(v, x)[x] ELSE v[x]],
     count  |-> Cardinality(cancelled)]

-----------------------------------------------------------------------------
(* The inputs the strategy is driven with.                                 *)

(* The current price signals are asked at, and the liquidity levels        *)
(* find_liquidity reports around it (15 points either side: with the       *)
(* 5-point buffer a risk distance of 20).                                  *)
EntryPrice == CHOOSE p \in {18000} : TRUE
Liquidity == [high |-> EntryPrice + 15, low |-> EntryPrice - 15]

(* The levels the loops are fed: a risk distance of 40, at which one 4R    *)
(* exit of 10 contracts moves the day's P&L past the daily limit.          *)
WideLiquidity == [high |-> EntryPrice + 35, low |-> EntryPrice - 35]

Trends == {"bullish", "bearish", "ranging"}

Structure(trend) == [trend |-> trend, bos |-> FALSE, choch |-> FALSE]

(* Gap zones around the price: one of either type that holds the price.    *)
GapLists ==
    { <<>>,
      << [type |-> "bullish", low |-> EntryPrice - 8, high |-> EntryPrice + 2] >>,
      << [type |-> "bearish", low |-> EntryPrice - 2, high |-> EntryPrice + 8] >> }

(* Market data as the four-frame dict of the live loop: 20 bars in every   *)
(* frame but the 15min one, the trends and the 15min gaps as given.        *)
Market(n15, s4, s1, s15, g, liq) ==
    [keys |-> Timeframes,
     len |-> [tf \in Timeframes |-> IF tf = "15min" THEN n15 ELSE 20],
     structure |-> [tf \in Timeframes |->
                       IF tf = "4hr" THEN Structure(s4)
                       ELSE IF tf = "1hr" THEN Structure(s1)
                       ELSE Structure(s15)],
     fvgs |-> [tf \in Timeframes |-> IF tf = "15min" THEN g ELSE <<>>],
     liquidity |-> liq]

Markets ==
    { Market(20, "bullish", "ranging", s15, g, Liquidity) :
      s15 \in Trends, g \in GapLists }

(* The same data as the single DataFrame TradingV1 passes: `tf in data`    *)
(* looks among its columns and finds no timeframe.                         *)
FrameMarkets ==
    { [Market(20, "bullish", "ranging", "bullish", g, Liquidity)
          EXCEPT !.keys = {}] : g \in GapLists \ {<<>>} }

(* What the bar store hands the live loop on one iteration.                *)
LoopMarkets ==
    { Market(n15, "bullish", "ranging", "bullish", g, WideLiquidity) :
      n15 \in {19, 20},
      g \in { x \in GapLists : \A i \in DOMAIN x : x[i].type = "bullish" } }

(* The signals generate_signal can return for these markets.               *)
Signals ==
    { generate_signal(None, None, m, EntryPrice, None).ret : m \in Markets }
        \ {None}

(* Prices replayed through update_trade: quarters of R around the entry,   *)
(* on the side the position profits from for positive q.                   *)
QuarterR == {-4, 1, 6, 8, 12, 16}

PriceGrid(t) ==
    IF t = None THEN {EntryPrice}
    ELSE { t.entry_price + Sign(t.action) * ((t.risk_distance * q) \div 4) :
           q \in QuarterR }

TimeArgs == {None, At(0)}

-----------------------------------------------------------------------------
(* The control loops' state after construction and a successful            *)
(* connect_ibkr / initialize.                                              *)

MaxDay == 1         \* the last day the clock reaches (the run starts on day 0)
MaxOrders == 3      \* orders placed at the venue in one run

(* main(): LiveTradingV2(initial_capital=100000).                          *)
InitialCapital == 100000

(* What one loop iteration did: the stage it ended at, whether it ran the  *)
(* new-day reset, the strategy status it read, what update_trade returned, *)
(* how the submission of opening orders ended, the orders it placed and    *)
(* the cancels it sent to the venue, and whether it ended in the except    *)
(* clause.                                                                 *)
NoTick ==
    [stage |-> "start", new_day |-> FALSE, status |-> "n/a", result |-> None,
     submit |-> "none", placed |-> <<>>, cancels |-> {}, raised |-> "no"]

(* RiskManager.__init__ (risk_management.py).                              *)
InitRiskManager ==
    /\ account_equity = 0
    /\ daily_loss = 0
    /\ account_info = None

(* DataManager.__init__ (data_manager.py).                                 *)
InitDataManager ==
    data_manager = [ib |-> None, df_1min |-> NoFrame,
                    timeframes |-> [tf \in DOMAIN Freq |-> NoFrame]]

InitLibState ==
    /\ InitRiskManager
    /\ current_position = 0
    /\ InitDataManager
    /\ live_file = NoFile

InitLoopState ==
    /\ now = At(6)
    /\ last_date = None
    /\ capital = InitialCapital
    /\ daily_pnl = 0
    /\ trade_history = <<>>
    /\ monitor_connected = FALSE
    /\ ib_connected = TRUE
    /\ orders = NoOrders
    /\ venue = <<>>
    /\ tick = NoTick
    /\ running = TRUE
    /\ signalled = FALSE
    /\ failed_reconnects = 0

-----------------------------------------------------------------------------
(* Spec: the strategy object driven through its public methods in any      *)
(* order.                                                                  *)

InitStrategy ==
    /\ active_trade = None
    /\ last_signal_time = None
    /\ last = [op |-> "init"]
    /\ opened = None
    /\ hist = <<>>
    /\ signal_times = {}

Init ==
    /\ program = "api"
    /\ InitStrategy
    /\ InitLoopState
    /\ InitLibState

CallGenerateSignal ==
    /\ program = "api"
    /\ UNCHANGED <<program, loopVars, libVars>>
    /\ \E time \in TimeArgs, mkt \in Markets \cup FrameMarkets :
        LET gs == generate_signal(active_trade, last_signal_time, mkt,
                                  EntryPrice, time) IN
        /\ last_signal_time' = gs.last_signal_time
        /\ last' = [op |-> "generate_signal", before |-> active_trade,
                    time |-> time, ret |-> gs.ret]
        /\ signal_times' = IF gs.ret # None /\ time # None
                           THEN signal_times \cup {time}
                           ELSE signal_times
        /\ UNCHANGED <<active_trade, opened, hist>>

CallOpenPosition ==
    /\ program = "api"
    /\ UNCHANGED <<program, loopVars, libVars>>
    /\ \E signal \in Signals, size \in 1..MaxSize :
        LET o == open_position(active_trade, signal, size) IN
        /\ active_trade' = o.trade
        /\ last' = [op |-> "open_position", before |-> active_trade,
                    ret |-> o.ret]
        /\ opened' = IF o.ret # None THEN o.ret ELSE opened
        /\ hist' = IF o.ret # None THEN <<>> ELSE hist
        /\ UNCHANGED <<last_signal_time, signal_times>>

CallUpdateTrade ==
    /\ program = "api"
    /\ UNCHANGED <<program, loopVars, libVars>>
    /\ active_trade # None => Len(hist) < MaxHist
    /\ \E price \in PriceGrid(opened) :
        LET u == update_trade(active_trade, price) IN
        /\ active_trade' = u.trade
        /\ last' = [op |-> "update_trade", before |-> active_trade,
                    price |-> price, ret |-> u.result]
        /\ hist' = IF active_trade # None
                   THEN Append(hist, [price |-> price, result |-> u.result])
                   ELSE hist
        /\ UNCHANGED <<last_signal_time, opened, signal_times>>

CallReset ==
    /\ program = "api"
    /\ UNCHANGED <<program, loopVars, libVars>>
    /\ active_trade' = reset.trade
    /\ last_signal_time' = reset.last_signal_time
    /\ last' = [op |-> "reset", before |-> active_trade]
    /\ signal_times' = {}
    /\ UNCHANGED <<opened, hist>>

Next ==
    \/ CallGenerateSignal
    \/ CallOpenPosition
    \/ CallUpdateTrade
    \/ CallReset

Spec == Init /\ [][Next]_vars

-----------------------------------------------------------------------------
(* The loops.  One action is one iteration of `while self.running`, from   *)
(* datetime.now() to the sleep that ends it.                               *)

Day(dt) == dt.hours \div 24

(* The hours of a day the clock is read at: the last hour before the       *)
(* session, its first and last hour, the first hour after it.  An          *)
(* iteration sleeps                                                        *)
(* at most a minute, so the next one reads the same sampled hour or the    *)
(* one that follows it.  The run is followed up to the hour before the     *)
(* session of day MaxDay.                                                  *)
SampleHours == {SessionStart - 1, SessionStart, SessionEnd - 1, SessionEnd}

LastHour == 24 * MaxDay + SessionStart - 1

Sampled(h) == h % 24 \in SampleHours

ClockAfter(t) ==
    { At(h) : h \in { x \in t.hours .. LastHour :
                       /\ Sampled(x)
                       /\ Cardinality({ y \in (t.hours + 1) .. x : Sampled(y) }) <= 1 } }

(* result['pnl'] and the like: the key is in the dict.                     *)
HasKey(dict, key) == key \in DOMAIN dict

(* The values an iteration works on, as a record; Apply makes them the     *)
(* next state.                                                             *)
Current ==
    [trade |-> active_trade, lst |-> last_signal_time, opened |-> opened,
     last_date |-> last_date, capital |-> capital, pnl |-> daily_pnl,
     history |-> trade_history, mon |-> monitor_connected,
     ibc |-> ib_connected, orders |-> orders, venue |-> venue,
     tick |-> NoTick]

Assign(r, t2) ==
    /\ now' = t2
    /\ active_trade' = r.trade
    /\ last_signal_time' = r.lst
    /\ opened' = r.opened
    /\ last_date' = r.last_date
    /\ capital' = r.capital
    /\ daily_pnl' = r.pnl
    /\ trade_history' = r.history
    /\ monitor_connected' = r.mon
    /\ ib_connected' = r.ibc
    /\ orders' = r.orders
    /\ venue' = r.venue
    /\ tick' = r.tick
    /\ Len(r.venue) <= MaxOrders
    /\ UNCHANGED <<program, last, hist, signal_times, libVars>>

(* The iteration's outcome x, worked out once, becomes the next state.    *)
Apply(x, t2) == \E r \in {x} : Assign(r, t2)

EndAt(r, stage) == [r EXCEPT !.tick.stage = stage]

(* LiveTradingV2.run, `if last_date != today`: a new day zeroes daily_pnl  *)
(* and resets the strategy.                                                *)
NewDay(c, t2) ==
    IF c.last_date = None \/ c.last_date # [day |-> Day(t2)]
    THEN [c EXCEPT !.last_date = [day |-> Day(t2)],
                   !.pnl = 0,
                   !.trade = reset.trade,
                   !.lst = reset.last_signal_time,
                   !.tick.new_day = TRUE]
    ELSE c

(* IBKRMonitor.is_connected.                                               *)
is_connected(c) == c.mon /\ c.ibc

(* The reconnect branch: ib.reconnect() raises, or re-establishes the      *)
(* connection, on which the library emits connectedEvent to on_connected.  *)
Reconnect(c, ok) ==
    IF ~c.ibc
    THEN IF ok THEN EndAt([c EXCEPT !.ibc = TRUE, !.mon = TRUE], "reconnected")
         ELSE EndAt([c EXCEPT !.tick.raised = "reconnect"], "reconnect_failed")
    ELSE EndAt(c, "not_connected")

(* The idle branch of LiveTradingV2.run: signal, size, open_position,      *)
(* bracket submission.  Each step hands what it computed to the next.      *)
LiveSubmitted(c, o, sub) ==
    EndAt([c EXCEPT
             !.trade = o.trade,
             !.opened = IF o.ret # None THEN o.ret ELSE @,
             !.orders = sub.orders,
             !.venue = sub.venue,
             !.tick.submit = IF sub.ok THEN "ok" ELSE "failed",
             !.tick.placed = SubSeq(sub.venue, Len(c.venue) + 1, Len(sub.venue))],
          "opened")

LiveOpen(c, signal, size, fail_at) ==
    IF size <= 0 THEN EndAt(c, "no_size")
    ELSE LiveSubmitted(c, open_position(c.trade, signal, size),
                       submit_bracket_order(c.orders, c.venue,
                           create_bracket_order(signal, size), fail_at))

LiveSignal(c, gs, fail_at) ==
    IF gs.ret = None
    THEN EndAt([c EXCEPT !.lst = gs.last_signal_time], "no_signal")
    ELSE LiveOpen([c EXCEPT !.lst = gs.last_signal_time], gs.ret,
                  calculate_position_size(c.capital, gs.ret.entry_price,
                                          gs.ret.stop_loss),
                  fail_at)

LiveIdle(c, t2, mkt, price, fail_at) ==
    IF get_active_count(c.orders) > 0 THEN EndAt(c, "active_orders")
    ELSE LiveSignal(c, generate_signal(c.trade, c.lst, mkt, price, t2), fail_at)

(* The active branch of LiveTradingV2.run: update_trade and what the loop  *)
(* does with its result.  The partial_close lines read result['pnl'].      *)
Booked(c, pnl) == [c EXCEPT !.pnl = @ + pnl, !.capital = @ + pnl]

LiveClosed(c, before, ca) ==
    EndAt([c EXCEPT !.orders = ca.orders,
                    !.venue = ca.venue,
                    !.tick.cancels = DOMAIN before.active \ DOMAIN ca.orders.active],
          "updated")

LiveResult(c, entry_price, price, u, raising) ==
    IF u.result.action = "partial_close"
        THEN IF HasKey(u.result, "pnl")
             THEN EndAt(Booked([c EXCEPT !.trade = u.trade, !.tick.result = u.result],
                               u.result.pnl), "updated")
             ELSE EndAt([c EXCEPT !.trade = u.trade, !.tick.result = u.result,
                                  !.tick.raised = "KeyError"], "updated")
    ELSE IF u.result.action = "close"
        THEN LiveClosed(Booked([c EXCEPT
                                  !.trade = u.trade,
                                  !.tick.result = u.result,
                                  !.history = Append(@, [entry_price |-> entry_price,
                                                         exit_price |-> price,
                                                         pnl |-> u.result.pnl])],
                               u.result.pnl),
                        c.orders,
                        cancel_all(c.orders, c.venue, raising))
    ELSE EndAt([c EXCEPT !.trade = u.trade, !.tick.result = u.result], "updated")

LiveActive(c, price, raising) ==
    LiveResult(c, c.trade.entry_price, price, update_trade(c.trade, price), raising)

(* The guards with the wait for working orders applied before the status   *)
(* is read, instead of inside the idle branch.                             *)
Blocked_ActiveOrdersFirst(c, n15, price) ==
    IF n15 < 20 THEN "no_data"
    ELSE IF price <= 0 THEN "no_price"
    ELSE IF ~should_trade(c.capital, c.pnl) THEN "risk"
    ELSE IF get_active_count(c.orders) > 0 THEN "active_orders"
    ELSE "no"

(* The guards every trading iteration passes first, in the loop's order.   *)
Blocked(c, n15, price) ==
    IF n15 < 20 THEN "no_data"
    ELSE IF price <= 0 THEN "no_price"
    ELSE IF ~should_trade(c.capital, c.pnl) THEN "risk"
    ELSE "no"

(* Prices get_current_price returns: 0.0 on an empty bar store.            *)
LoopQuarterR == {-4, 6, 8, 16}

PricesAt(t, quarters) ==
    {0} \cup
    IF t = None THEN {EntryPrice}
    ELSE { t.entry_price + Sign(t.action) * ((t.risk_distance * q) \div 4) :
           q \in quarters }

LoopPrices(t) == PricesAt(t, LoopQuarterR)

(* Where placeOrder raises during a bracket submission: never, at the      *)
(* first order, at the last.                                               *)
FailPoints == {0, 1, 3}

(* One iteration of `while self.running` in LiveTradingV2.run, with the    *)
(* clock readings, market data, price quarters and placeOrder failures     *)
(* the environment offers.                                                 *)
LiveIteration(clock, markets, quarters, fail_points) ==
    \E t2 \in clock :
        \E c \in {NewDay(Current, t2)} :
        IF ~is_connected(c)
            THEN \E ok \in BOOLEAN : Apply(Reconnect(c, ok), t2)
        ELSE IF is_trading_session(t2) = NoSession
            THEN Apply(EndAt(c, "no_session"), t2)
        ELSE \E mkt \in markets, price \in PricesAt(c.trade, quarters) :
            \E c1 \in {[c EXCEPT !.tick.status = get_status(c.trade)]},
               blocked \in {Blocked(c, mkt.len["15min"], price)} :
            IF blocked # "no"
                THEN Apply(EndAt(c, blocked), t2)
            ELSE IF c1.tick.status = "idle"
                THEN \E fail_at \in fail_points :
                         Apply(LiveIdle(c1, t2, mkt, price, fail_at), t2)
            ELSE \E raising \in {{}, DOMAIN c.orders.active} :
                     Apply(LiveActive(c1, price, raising), t2)

LiveTick ==
    /\ program = "live"
    /\ running
    /\ LiveIteration(ClockAfter(now), LoopMarkets, LoopQuarterR, FailPoints)
    /\ UNCHANGED sessionVars

(* on_order_event -> on_ibkr_event: the venue reports a status of one of   *)
(* its orders and the callback hands it to update_order_status at once.    *)
OrderEvent(id, status) ==
    /\ venue[id].status \in {"Submitted", "PendingCancel"}
    /\ venue' = IF status = "Submitted" THEN venue
                ELSE [venue EXCEPT ![id].status = status]
    /\ orders' = update_order_status(orders, id, status)

VenueOrderEvent ==
    /\ program = "live"
    /\ ib_connected
    /\ \E id \in DOMAIN venue, status \in {"Submitted", "Filled", "Cancelled"} :
        OrderEvent(id, status)
    /\ UNCHANGED <<program, stratVars, libVars, sessionVars, now, last_date, capital,
                   daily_pnl, trade_history, monitor_connected, ib_connected, tick>>

(* on_disconnected: the connection drops.                                  *)
VenueDisconnect ==
    /\ program \in {"live", "session"}
    /\ ib_connected
    /\ ib_connected' = FALSE
    /\ monitor_connected' = FALSE
    /\ UNCHANGED <<program, stratVars, libVars, sessionVars, now, last_date, capital,
                   daily_pnl, trade_history, orders, venue, tick>>

(* TradingV1.run (trade_v1.py).                                            *)

(* The methods class IBKRClient defines (ibkr_client.py).                  *)
IBKRClientMethods ==
    {"connect", "create_mnq_contract", "get_historical_data",
     "get_realtime_data", "place_market_order", "place_limit_order",
     "disconnect"}

(* IBKRClient.place_market_order: the order id, or None when placeOrder    *)
(* raised.                                                                 *)
place_market_order(v, action, quantity, ok) ==
    IF ok
    THEN [venue |-> Append(v, [action |-> action, size |-> quantity,
                               orderType |-> "MKT", price |-> 0,
                               status |-> "Submitted"]),
          placed |-> TRUE]
    ELSE [venue |-> v, placed |-> FALSE]

AccountValues == {500, InitialCapital}

(* The idle branch of TradingV1.run: generate_signal is handed the bar     *)
(* frame and no time; a failed order resets the strategy.                  *)
V1Placed(c, o, pm) ==
    IF pm.placed
    THEN EndAt([c EXCEPT
                  !.trade = o.trade,
                  !.opened = IF o.ret # None THEN o.ret ELSE @,
                  !.venue = pm.venue,
                  !.tick.submit = "ok",
                  !.tick.placed = SubSeq(pm.venue, Len(c.venue) + 1, Len(pm.venue))],
               "opened")
    ELSE EndAt([c EXCEPT
                  !.trade = reset.trade,
                  !.lst = reset.last_signal_time,
                  !.opened = IF o.ret # None THEN o.ret ELSE @,
                  !.tick.submit = "failed"],
               "opened")

V1Open(c, signal, size, ok) ==
    IF size <= 0 THEN EndAt(c, "no_size")
    ELSE V1Placed(c, open_position(c.trade, signal, size),
                  place_market_order(c.venue, signal.action, size, ok))

V1Signal(c, gs, value, ok) ==
    IF gs.ret = None
    THEN EndAt([c EXCEPT !.lst = gs.last_signal_time], "no_signal")
    ELSE V1Open([c EXCEPT !.lst = gs.last_signal_time], gs.ret,
                calculate_position_size(value, gs.ret.entry_price,
                                        gs.ret.stop_loss),
                ok)

V1Idle(c, mkt, price, value, ok) ==
    V1Signal(c, generate_signal(c.trade, c.lst, mkt, price, None), value, ok)

(* The active branch of TradingV1.run.  After a close it reads             *)
(* self.strategy.active_trade['action'] to build the closing order.        *)
V1ClosingOrder(c, pm) ==
    EndAt([c EXCEPT !.venue = pm.venue,
                    !.tick.placed = SubSeq(pm.venue, Len(c.venue) + 1, Len(pm.venue))],
          "updated")

V1Result(c, u, ok) ==
    IF u.result.action = "partial_close"
        THEN IF HasKey(u.result, "pnl")
             THEN EndAt([c EXCEPT !.trade = u.trade, !.tick.result = u.result,
                                  !.pnl = @ + u.result.pnl], "updated")
             ELSE EndAt([c EXCEPT !.trade = u.trade, !.tick.result = u.result,
                                  !.tick.raised = "KeyError"], "updated")
    ELSE IF u.result.action = "close"
        THEN IF u.trade = None
             THEN EndAt([c EXCEPT !.trade = u.trade, !.tick.result = u.result,
                                  !.pnl = @ + u.result.pnl,
                                  !.tick.raised = "TypeError"], "updated")
             ELSE V1ClosingOrder([c EXCEPT !.trade = u.trade,
                                           !.tick.result = u.result,
                                           !.pnl = @ + u.result.pnl],
                                 place_market_order(c.venue, Opposite(u.trade.action),
                                                    u.trade.size, ok))
    ELSE EndAt([c EXCEPT !.trade = u.trade, !.tick.result = u.result], "updated")

V1Active(c, price, ok) == V1Result(c, update_trade(c.trade, price), ok)

(* One iteration of TradingV1.run.  The risk check calls                   *)
(* self.ibkr.get_account_value(); a method the client class does not       *)
(* define raises AttributeError, which the loop's except clause logs.      *)
V1Tick ==
    /\ program = "v1"
    /\ running
    /\ UNCHANGED sessionVars
    /\ \E t2 \in ClockAfter(now) :
        \E c \in {Current} :
        IF is_trading_session(t2) = NoSession
            THEN Apply(EndAt(c, "no_session"), t2)
        ELSE \E has_data \in BOOLEAN :
            IF ~has_data THEN Apply(EndAt(c, "no_data"), t2)
            ELSE IF "get_account_value" \notin IBKRClientMethods
                THEN Apply(EndAt([c EXCEPT !.tick.raised = "AttributeError"],
                                 "account_value"), t2)
            ELSE \E mkt \in FrameMarkets, price \in LoopPrices(c.trade),
                    value \in AccountValues, ok \in BOOLEAN :
                \E c1 \in {[c EXCEPT !.tick.status = get_status(c.trade)]} :
                IF ~should_trade(value, c.pnl) THEN Apply(EndAt(c, "risk"), t2)
                ELSE IF c1.tick.status = "idle"
                    THEN Apply(V1Idle(c1, mkt, price, value, ok), t2)
                ELSE Apply(V1Active(c1, price, ok), t2)

(* SpecLoop: the two control loops with the venue's events.                *)
InitLoop ==
    /\ program \in {"live", "v1"}
    /\ InitStrategy
    /\ InitLoopState
    /\ InitLibState

NextLoop ==
    \/ LiveTick
    \/ V1Tick
    \/ VenueOrderEvent
    \/ VenueDisconnect

SpecLoop == InitLoop /\ [][NextLoop]_vars

(* SpecAll: every driver of the strategy object, the callers of its        *)
(* methods and the two loops.                                              *)
InitAll ==
    /\ program \in {"api", "live", "v1"}
    /\ InitStrategy
    /\ InitLoopState
    /\ InitLibState

NextAll ==
    \/ CallGenerateSignal
    \/ CallOpenPosition
    \/ CallUpdateTrade
    \/ CallReset
    \/ LiveTick
    \/ V1Tick
    \/ VenueOrderEvent
    \/ VenueDisconnect

SpecAll == InitAll /\ [][NextAll]_vars

-----------------------------------------------------------------------------
(* SpecRisk: the two risk managers called with any arguments.              *)

Equities == {-1000, 0, 500, 1000, 4000, InitialCapital}
Stops == { EntryPrice + d : d \in {-20, -1, 0, 2, 20} }
DayPnls == {-3000, -2999, -120, 0, 120, 2999, 3000}

InitRisk ==
    /\ program = "risk"
    /\ InitStrategy
    /\ InitLoopState
    /\ InitLibState

CallV1PositionSize ==
    /\ program = "risk"
    /\ \E cap \in Equities, stop \in Stops :
        last' = [op |-> "calculate_position_size", manager |-> "RiskManagerV1",
                 equity |-> cap, entry_price |-> EntryPrice, stop_loss |-> stop,
                 ret |-> calculate_position_size(cap, EntryPrice, stop)]
    /\ UNCHANGED <<program, active_trade, last_signal_time, opened, hist, signal_times,
                   loopVars, libVars>>

CallV1ShouldTrade ==
    /\ program = "risk"
    /\ \E cap \in Equities, pnl \in DayPnls :
        last' = [op |-> "should_trade", manager |-> "RiskManagerV1",
                 equity |-> cap, daily_pnl |-> pnl,
                 ret |-> should_trade(cap, pnl)]
    /\ UNCHANGED <<program, active_trade, last_signal_time, opened, hist, signal_times,
                   loopVars, libVars>>

CallUpdateAccountInfo ==
    /\ program = "risk"
    /\ \E equity \in Equities, pnl \in DayPnls :
        /\ account_equity' = update_account_info(equity, pnl).account_equity
        /\ daily_loss' = update_account_info(equity, pnl).daily_loss
        /\ account_info' = [equity |-> equity, daily_pnl |-> pnl]
        /\ last' = [op |-> "update_account_info", manager |-> "RiskManager"]
    /\ UNCHANGED <<program, active_trade, last_signal_time, opened, hist, signal_times,
                   loopVars, dataVars, current_position>>

CallPositionSize ==
    /\ program = "risk"
    /\ \E stop \in Stops :
        last' = [op |-> "calculate_position_size", manager |-> "RiskManager",
                 equity |-> account_equity, entry_price |-> EntryPrice,
                 stop_loss |-> stop,
                 ret |-> RiskManager_calculate_position_size(account_equity,
                             EntryPrice, stop)]
    /\ UNCHANGED <<program, active_trade, last_signal_time, opened, hist, signal_times,
                   loopVars, libVars>>

CallShouldTrade ==
    /\ program = "risk"
    /\ account_info # None
    /\ last' = [op |-> "should_trade", manager |-> "RiskManager",
                equity |-> account_info.equity,
                daily_pnl |-> account_info.daily_pnl,
                ret |-> RiskManager_should_trade(account_equity, daily_loss)]
    /\ UNCHANGED <<program, active_trade, last_signal_time, opened, hist, signal_times,
                   loopVars, libVars>>

NextRisk ==
    \/ CallV1PositionSize
    \/ CallV1ShouldTrade
    \/ CallUpdateAccountInfo
    \/ CallPositionSize
    \/ CallShouldTrade

SpecRisk == InitRisk /\ [][NextRisk]_vars

-----------------------------------------------------------------------------
(* SpecData: a DataManager initialized from the files on disk and then     *)
(* updated from the venue.                                                 *)

(* A bar of minute d as the venue publishes it the v-th time.              *)
Bar(d, v) ==
    [date |-> d,
     open |-> 100 + ((5 * d + v) % 7),
     high |-> 107 + ((d + v) % 3),
     low |-> 99 - ((2 * d + v) % 3),
     close |-> 100 + ((3 * d + 2 * v) % 7),
     volume |-> 1 + ((d + v) % 4)]

FirstMinute == CHOOSE d \in {3} : TRUE
Minutes == FirstMinute .. (FirstMinute + Retention + 1)

(* The historical file: absent, two rows, or one row more than the         *)
(* retention.                                                              *)
HistoricalFiles ==
    { NoFile,
      File(<<Bar(FirstMinute, 1), Bar(FirstMinute + 1, 1)>>),
      File([i \in 1..(Retention + 1) |-> Bar(FirstMinute + i - 1, 1)]) }

(* The live file: absent, or two rows, one of them a later publication of  *)
(* a minute of the historical file.                                        *)
LiveFiles ==
    { NoFile, File(<<Bar(FirstMinute + 1, 2), Bar(FirstMinute + 2, 2)>>) }

(* What reqHistoricalData returns to the sync.                             *)
SyncBars == { NoFrame, <<Bar(FirstMinute + 2, 1), Bar(FirstMinute + 3, 1)>> }

InitData ==
    /\ program = "data"
    /\ InitStrategy
    /\ InitLoopState
    /\ InitRiskManager
    /\ InitDataManager
    /\ live_file \in LiveFiles
    /\ current_position = 0

DataInitialize ==
    /\ program = "data"
    /\ data_manager.ib = None
    /\ \E historical \in HistoricalFiles, connected \in BOOLEAN, bars \in SyncBars :
        \E r \in {initialize(data_manager, historical, live_file, connected, bars)} :
            /\ data_manager' = r.dm
            /\ live_file' = r.live
            /\ last' = [op |-> "initialize", historical |-> historical,
                        live |-> live_file, connected |-> connected,
                        bars |-> bars]
    /\ UNCHANGED <<program, active_trade, last_signal_time, opened, hist, signal_times,
                   loopVars, account_equity, daily_loss, account_info,
                   current_position>>

(* update() returns False at once without a client (`not self.ib`) or     *)
(* without a connection.                                                   *)
DataUpdate ==
    /\ program = "data"
    /\ \E isConnected \in BOOLEAN,
          bars \in {NoFrame} \cup { <<Bar(d, v)>> : d \in Minutes, v \in {1, 2} } :
        \E connected \in {data_manager.ib # None /\ isConnected} :
        \E r \in {update(data_manager, live_file, connected, bars)} :
            /\ data_manager' = r.dm
            /\ live_file' = r.live
            /\ last' = [op |-> "update", before |-> data_manager.df_1min,
                        connected |-> connected, bars |-> bars, ret |-> r.ret]
    /\ UNCHANGED <<program, active_trade, last_signal_time, opened, hist, signal_times,
                   loopVars, account_equity, daily_loss, account_info,
                   current_position>>

NextData ==
    \/ DataInitialize
    \/ DataUpdate

SpecData == InitData /\ [][NextData]_vars

-----------------------------------------------------------------------------
(* SpecBars: one call of the bar analysis on a frame of bars.  The         *)
(* analysis keeps no state between calls.                                  *)

MaxBars == 6

PriceLevels == {90, 95, 100, 104, 105, 110, 115}

(* Bars of the gap patterns: low <= high, closing at the high.             *)
PatternBars ==
    { b \in [low : PriceLevels, high : PriceLevels, close : PriceLevels] :
        b.low <= b.high /\ b.close = b.high }

(* A fourth bar after the pattern, or none.                                *)
Continuations ==
    { <<>>, <<[low |-> 115, high |-> 115, close |-> 115]>>,
      <<[low |-> 90, high |-> 90, close |-> 90]>> }

StructureLevels == {95, 100, 105, 110}

StructureBars ==
    { b \in [low : StructureLevels, high : StructureLevels, close : StructureLevels] :
        b.low <= b.high /\ b.close \in {b.low, b.high} }

Filler == [low |-> 100, high |-> 105, close |-> 100]

(* A frame of n bars that ends with a, b.                                  *)
FrameEnding(n, a, b) ==
    IF n = 0 THEN <<>>
    ELSE IF n = 1 THEN <<b>>
    ELSE [k \in 1..n |-> IF k = n THEN b ELSE IF k = n - 1 THEN a ELSE Filler]

FrameLengths == (0..MaxBars) \cup {50}

Implementations == {"strategy_v1", "ict_smc_strategy", "multi_timeframe_strategy"}

structure_trend(impl, data) ==
    IF impl = "strategy_v1" THEN V1_structure_trend(data)
    ELSE IF impl = "ict_smc_strategy" THEN ICTSMC_structure_trend(data)
    ELSE determine_trend(data)

MTFTimeframes == {"daily", "hourly", "five_min", "one_min"}

InitBars ==
    /\ program = "bars"
    /\ InitStrategy
    /\ InitLoopState
    /\ InitLibState

othersBars == <<program, active_trade, last_signal_time, opened, hist, signal_times,
               loopVars, libVars>>

CallDetectFvg ==
    /\ program = "bars"
    /\ last.op = "init"
    /\ \E a \in PatternBars, b \in PatternBars, c \in PatternBars, more \in Continuations :
        \E data \in {<<a, b, c>> \o more} :
            last' = [op |-> "detect_fvg", data |-> data,
                     ret |-> detect_fvg(data, FVG_SENSITIVITY)]
    /\ UNCHANGED othersBars

CallMtfDetectFvg ==
    /\ program = "bars"
    /\ last.op = "init"
    /\ \E a \in PatternBars, b \in PatternBars, c \in PatternBars, timeframe \in MTFTimeframes :
        last' = [op |-> "_detect_fvg", data |-> <<a, b, c>>, timeframe |-> timeframe,
                 ret |-> MTF_detect_fvg(<<a, b, c>>, timeframe)]
    /\ UNCHANGED othersBars

CallMarketStructure ==
    /\ program = "bars"
    /\ last.op = "init"
    /\ \E impl \in Implementations, n \in FrameLengths, a \in StructureBars, b \in StructureBars :
        \E data \in {FrameEnding(n, a, b)} :
            last' = [op |-> "trend", impl |-> impl, data |-> data,
                     ret |-> structure_trend(impl, data)]
    /\ UNCHANGED othersBars

NextBars ==
    \/ CallDetectFvg
    \/ CallMtfDetectFvg
    \/ CallMarketStructure

SpecBars == InitBars /\ [][NextBars]_vars

-----------------------------------------------------------------------------
(* SpecSignal: one call of generate_signal on a strategy without position, *)
(* with the market data computed from frames of bars.                      *)

(* find_liquidity over the whole frame instead of its last 20 bars.        *)
find_liquidity_WholeFrame(data) ==
    [high |-> SetMax({ data[i].high : i \in DOMAIN data }),
     low |-> SetMin({ data[i].low : i \in DOMAIN data })]

(* ICTSMCV1Strategy.find_liquidity(data): the highest high and the lowest  *)
(* low of the last 20 bars.                                                *)
find_liquidity(data) ==
    [high |-> SetMax({ tail(data, 20)[i].high : i \in DOMAIN tail(data, 20) }),
     low |-> SetMin({ tail(data, 20)[i].low : i \in DOMAIN tail(data, 20) })]

(* ICTSMCV1Strategy.analyze_market_structure(data) on at least 5 bars:     *)
(* highs[-5:-1] and lows[-5:-1] are the four bars before the last.         *)
V1_market_structure(data) ==
    LET n == Len(data)
        trend == TrendOfLastTwo(data)
    IN  [trend |-> trend,
         bos |-> \/ trend = "bullish"
                      /\ data[n].high > SetMax({ data[i].high : i \in (n - 4)..(n - 1) })
                 \/ trend = "bearish"
                      /\ data[n].low < SetMin({ data[i].low : i \in (n - 4)..(n - 1) }),
         choch |-> \/ trend = "bullish" /\ data[n].low < data[n - 1].low
                   \/ trend = "bearish" /\ data[n].high > data[n - 1].high]

(* The market data of a dict of frames: what the strategy's analysis       *)
(* methods return for each frame.                                          *)
MarketOf(frames) ==
    [keys |-> DOMAIN frames,
     len |-> [tf \in Timeframes |-> IF tf \in DOMAIN frames THEN Len(frames[tf]) ELSE 0],
     structure |-> [tf \in Timeframes |->
                       IF tf \in DOMAIN frames /\ Len(frames[tf]) >= 5
                       THEN V1_market_structure(frames[tf])
                       ELSE Structure("unknown")],
     fvgs |-> [tf \in Timeframes |->
                  IF tf \in DOMAIN frames THEN detect_fvg(frames[tf], FVG_SENSITIVITY)
                  ELSE <<>>],
     liquidity |-> IF "15min" \in DOMAIN frames THEN find_liquidity(frames["15min"])
                   ELSE [high |-> 0, low |-> 0]]

(* Three last bars of a frame: a rising pattern with the gap 100..110, a   *)
(* falling one with the gap 95..105, and one without gap or trend.         *)
Shapes == {"rising", "falling", "flat"}

ShapeBars(shape) ==
    IF shape = "rising"
    THEN <<[low |-> 95, high |-> 100, close |-> 100],
           [low |-> 100, high |-> 105, close |-> 105],
           [low |-> 110, high |-> 115, close |-> 115]>>
    ELSE IF shape = "falling"
    THEN <<[low |-> 105, high |-> 110, close |-> 105],
           [low |-> 100, high |-> 105, close |-> 100],
           [low |-> 90, high |-> 95, close |-> 90]>>
    ELSE <<Filler, Filler, Filler>>

(* An old bar beyond every later one, ahead of the last 20 bars.           *)
OldExtreme == [low |-> 70, high |-> 140, close |-> 100]

(* A frame of n >= 3 bars ending with the bars of the shape; a frame of    *)
(* more than 20 bars starts with the old extreme.                          *)
ShapedFrame(n, shape) ==
    [k \in 1..n |->
        IF k > n - 3 THEN ShapeBars(shape)[k - (n - 3)]
        ELSE IF n > 20 /\ k = 1 THEN OldExtreme
        ELSE Filler]

HigherLengths == {4, 5, 20}
SignalLengths == {9, 10, 19, 20, 21}
SignalPrices == {92, 98, 105, 112, 118}

(* The dicts handed to generate_signal: all four frames, or without the    *)
(* 4hr frame.                                                              *)
FrameDicts ==
    { [tf \in ks |->
          IF tf = "4hr" THEN ShapedFrame(n4, s4)
          ELSE IF tf = "1hr" THEN ShapedFrame(n1, s1)
          ELSE IF tf = "15min" THEN ShapedFrame(n15, s15)
          ELSE ShapedFrame(20, "flat")] :
      ks \in {Timeframes, Timeframes \ {"4hr"}},
      n4 \in HigherLengths, s4 \in Shapes,
      n1 \in HigherLengths, s1 \in Shapes,
      n15 \in SignalLengths, s15 \in Shapes }

InitSignal ==
    /\ program = "signal"
    /\ InitStrategy
    /\ InitLoopState
    /\ InitLibState

CallGenerateSignalOnFrames ==
    /\ program = "signal"
    /\ last.op = "init"
    /\ \E frames \in FrameDicts, price \in SignalPrices, time \in TimeArgs :
        \E gs \in {generate_signal(active_trade, last_signal_time, MarketOf(frames),
                                   price, time)} :
            /\ last_signal_time' = gs.last_signal_time
            /\ last' = [op |-> "generate_signal", frames |-> frames,
                        price |-> price, ret |-> gs.ret]
    /\ UNCHANGED <<program, active_trade, opened, hist, signal_times, loopVars, libVars>>

NextSignal == CallGenerateSignalOnFrames

SpecSignal == InitSignal /\ [][NextSignal]_vars

-----------------------------------------------------------------------------
(* SpecSession: the live loop with the process's signals, the venue's      *)
(* order events (a rejection among them) and the count of failed           *)
(* reconnections.  The clock stays in the first session hour.              *)

(* IBKRMonitor.max_reconnect.  Nothing in the program reads it, and        *)
(* IBKRMonitor.reconnect_count is only ever set to 0.                      *)
max_reconnect == 5

MaxAttempts == 6    \* failed reconnections followed

SessionClock == { t \in ClockAfter(now) : t.hours <= SessionStart }

SessionMarkets == { m \in LoopMarkets : m.len["15min"] = 20 /\ m.fvgs["15min"] # <<>> }

SessionQuarterR == {-4, 16}

SessionFailPoints == {0, 3}

(* The statuses the venue reports of an order.                             *)
SessionStatuses == {"Submitted", "Filled", "Cancelled", "Rejected"}

InitSession ==
    /\ program = "session"
    /\ InitStrategy
    /\ InitLoopState
    /\ InitLibState

(* One iteration of LiveTradingV2.run.  `while self.running` is the only   *)
(* reader of running, and nothing in the loop, the callbacks or the signal *)
(* handler assigns it after run() set it; the statements after the loop    *)
(* (disconnect_ibkr) are never reached.                                    *)
SessionTick ==
    /\ program = "session"
    /\ running
    /\ failed_reconnects < MaxAttempts
    /\ LiveIteration(SessionClock, SessionMarkets, SessionQuarterR, SessionFailPoints)
    /\ failed_reconnects' =
          IF tick'.stage = "reconnect_failed" THEN failed_reconnects + 1
          ELSE IF tick'.stage = "reconnected" THEN 0
          ELSE failed_reconnects
    /\ UNCHANGED <<running, signalled>>

(* signal_handler(signum, frame), installed for SIGINT and SIGTERM by      *)
(* main(): it writes a log line.                                           *)
ShutdownSignal ==
    /\ program = "session"
    /\ ~signalled
    /\ signalled' = TRUE
    /\ UNCHANGED <<program, stratVars, libVars, now, last_date, capital, daily_pnl,
                   trade_history, monitor_connected, ib_connected, orders, venue,
                   tick, running, failed_reconnects>>

(* The order callback, with the event recorded.                            *)
SessionOrderEvent ==
    /\ program = "session"
    /\ ib_connected
    /\ \E id \in DOMAIN venue, status \in SessionStatuses :
        /\ OrderEvent(id, status)
        /\ last' = [op |-> "order_event", id |-> id, status |-> status,
                    tracked |-> id \in DOMAIN orders.active]
    /\ UNCHANGED <<program, active_trade, last_signal_time, opened, hist, signal_times, libVars,
                   sessionVars, now, last_date, capital, daily_pnl, trade_history,
                   monitor_connected, ib_connected, tick>>

NextSession ==
    \/ SessionTick
    \/ ShutdownSignal
    \/ SessionOrderEvent
    \/ VenueDisconnect

SpecSession == InitSession /\ [][NextSession]_vars

-----------------------------------------------------------------------------
(* SpecMain: the trading loops of CLAWAIBKRMNQ (main.py) and               *)
(* CLAWAMultiTimeframe (main_multitimeframe.py), from the start of         *)
(* start_trading_loop.  Both run the same analyze_and_trade on their own   *)
(* strategy's signal; they differ in the equity update_account_info is     *)
(* given.                                                                  *)

MaxPlaced == 5      \* market orders followed per run

MainEquity == 10000
MtfEquity == 100000

EquityOf(p) == IF p = "main" THEN MainEquity ELSE MtfEquity

(* The signals the strategies hand to analyze_and_trade: either direction, *)
(* the stop on the losing side at these distances from the entry.          *)
MainStopDistances == {5, 10, 50, 500}

MainSignals ==
    { [action |-> a, entry_price |-> EntryPrice,
       stop_loss |-> EntryPrice - Sign(a) * d] :
      a \in {"BUY", "SELL"}, d \in MainStopDistances }

(* The last lines of analyze_and_trade: the market order, and the position *)
(* moved by its size when an order id came back.                           *)
MainOrdered(position, signal, size, pm) ==
    [current_position |->
         IF ~pm.placed THEN position
         ELSE IF signal.action = "BUY" THEN position + size
         ELSE position - size,
     venue |-> pm.venue,
     stage |-> IF pm.placed THEN "ordered" ELSE "order_failed",
     size |-> size]

MainSized(position, v, signal, size, ok) ==
    IF size <= 0
        THEN [current_position |-> position, venue |-> v,
              stage |-> "no_size", size |-> size]
    ELSE IF ~validate_order(size, position)
        THEN [current_position |-> position, venue |-> v,
              stage |-> "validation_failed", size |-> size]
    ELSE MainOrdered(position, signal, size,
                     place_market_order(v, signal.action, size, ok))

(* analyze_and_trade: market data, price, signal, should_trade, size,      *)
(* validate_order, order.                                                  *)
analyze_and_trade(position, v, equity, loss, has_data, has_price, signal, ok) ==
    IF ~has_data
        THEN [current_position |-> position, venue |-> v,
              stage |-> "no_data", size |-> 0]
    ELSE IF ~has_price
        THEN [current_position |-> position, venue |-> v,
              stage |-> "no_price", size |-> 0]
    ELSE IF signal = None
        THEN [current_position |-> position, venue |-> v,
              stage |-> "no_signal", size |-> 0]
    ELSE IF ~RiskManager_should_trade(equity, loss)
        THEN [current_position |-> position, venue |-> v,
              stage |-> "risk", size |-> 0]
    ELSE MainSized(position, v, signal,
                   RiskManager_calculate_position_size(equity, signal.entry_price,
                                                       signal.stop_loss),
                   ok)

(* The state once initialize() has returned True: update_account_info has  *)
(* stored the equity and a daily P&L of 0.                                 *)
InitMain ==
    /\ program \in {"main", "main_mtf"}
    /\ InitStrategy
    /\ InitLoopState
    /\ InitDataManager
    /\ live_file = NoFile
    /\ account_equity = update_account_info(EquityOf(program), 0).account_equity
    /\ daily_loss = update_account_info(EquityOf(program), 0).daily_loss
    /\ account_info = [equity |-> EquityOf(program), daily_pnl |-> 0]
    /\ current_position = 0

(* One iteration of start_trading_loop.                                    *)
MainTick ==
    /\ program \in {"main", "main_mtf"}
    /\ running
    /\ Len(venue) < MaxPlaced
    /\ \E has_data \in BOOLEAN, has_price \in BOOLEAN,
          signal \in MainSignals \cup {None}, ok \in BOOLEAN :
        \E r \in {analyze_and_trade(current_position, venue, account_equity,
                                    daily_loss, has_data, has_price, signal, ok)} :
            /\ current_position' = r.current_position
            /\ venue' = r.venue
            /\ last' = [op |-> "analyze_and_trade", before |-> current_position,
                        signal |-> signal, stage |-> r.stage, size |-> r.size]
    /\ UNCHANGED <<program, active_trade, last_signal_time, opened, hist,
                   signal_times, now, last_date, capital, daily_pnl,
                   trade_history, monitor_connected, ib_connected, orders, tick,
                   sessionVars, account_equity, daily_loss, account_info, dataVars>>

NextMain == MainTick

SpecMain == InitMain /\ [][NextMain]_vars

-----------------------------------------------------------------------------
(* Properties of the position state machine, under Spec.                   *)

IsUpdate == last.op = "update_trade" /\ last.before # None

(* The level a returned result belongs to, in tenths of R; 0 when the      *)
(* result is no level action (hold, stop-loss close).                      *)
LevelOfResult(o, r) ==
    IF r.action = "partial_close" THEN 15
    ELSE IF r.action = "trail_stop"
        THEN (10 * Sign(o.action) * (r.new_stop_loss - o.entry_price))
                 \div o.risk_distance + 10
    ELSE IF r.action = "close" /\ r.reason = "4R take-profit" THEN 40
    ELSE 0

LevelActionsOnce ==
    \A i, j \in DOMAIN hist :
        /\ i # j
        /\ LevelOfResult(opened, hist[i].result) # 0
        => LevelOfResult(opened, hist[i].result)
               # LevelOfResult(opened, hist[j].result)

TrailLevelNeverDecreases ==
    [][ active_trade # None /\ active_trade' # None
            => /\ active_trade'.trail_level >= active_trade.trail_level
               /\ active_trade'.trail_level \in {0, 15, 20, 30, 40} ]_vars

(* C1: over the life of one position trail_level never decreases from one  *)
(* update_trade call to the next and takes only the table's values, and    *)
(* each level's action (1.5R partial close, 2R trail, 3R trail, 4R close)  *)
(* is returned at most once.                                               *)
C1_TrailLevelMonotone == TrailLevelNeverDecreases /\ []LevelActionsOnce

(* A position that climbed through 1.5R, 2R and 3R and was then updated    *)
(* once more without a level firing.                                       *)
C1_Witness ==
    /\ active_trade # None
    /\ active_trade.trail_level = 30
    /\ Len(hist) = 4
    /\ hist[4].result.action = "hold"

(* The scenario position: Buy, entry 18000, stop 17980, risk distance 20.  *)
ScenarioOpen ==
    /\ opened # None
    /\ opened.action = "BUY"
    /\ opened.entry_price = 18000
    /\ opened.stop_loss = 17980
    /\ opened.risk_distance = 20

(* The position has been replayed with exactly these prices so far, or     *)
(* with more after them.                                                   *)
Replayed(prices) ==
    /\ ScenarioOpen
    /\ Len(hist) >= Len(prices)
    /\ \A i \in DOMAIN prices : hist[i].price = prices[i]

ScenarioAt18030 ==
    Replayed(<<18030>>)
        => /\ hist[1].result.action = "partial_close"
           /\ hist[1].result.size = opened.size \div 2
           /\ hist[1].result.new_stop_loss = 18010

(* The statement of the scenario as the specification words it: 18005      *)
(* hits no stop and leaves the position open, 18080 then closes at 4R.     *)
C2_AsStated ==
    /\ ScenarioAt18030
    /\ Replayed(<<18030, 18005>>)
           => /\ hist[2].result.action = "hold"
              /\ (Len(hist) = 2 => active_trade # None)
    /\ Replayed(<<18030, 18005, 18080>>)
           => /\ hist[3].result.action = "close"
              /\ hist[3].result.reason = "4R take-profit"

(* C2 (amended): on the Buy position 18000/17980, update_trade at 18030    *)
(* returns a partial close of half the size and moves the stop to 18010;   *)
(* at 18005, which is below the moved stop, it closes the position with    *)
(* the stop-loss reason and a P&L of +10 points on both tranches; every    *)
(* later call, 18080 included, finds no position and returns hold.         *)
C2_ScenarioReplay ==
    /\ ScenarioAt18030
    /\ Replayed(<<18030, 18005>>)
           => /\ hist[2].result.action = "close"
              /\ hist[2].result.reason = "stop-loss"
              /\ hist[2].result.pnl = 10 * opened.size * 2
              /\ Len(hist) = 2
              /\ active_trade = None
              /\ last.op = "update_trade" /\ last.price = 18080
                     => last.ret = [action |-> "hold"]

(* The three prices of the scenario have been replayed in order.           *)
C2_Witness ==
    /\ Replayed(<<18030, 18005>>)
    /\ last.op = "update_trade"
    /\ last.price = 18080
    /\ last.before = None

(* C3: an update_trade call on an open position with the price at or       *)
(* beyond the active stop (<= for Buy, >= for Sell) returns a close with   *)
(* the stop-loss reason and leaves the strategy idle, at every trail       *)
(* level, and reports (stop - entry), in the position's direction, times   *)
(* (size + partial_size) times 2.                                          *)
C3_StopLossCloses ==
    IsUpdate
    /\ (IF last.before.action = "BUY" THEN last.price <= last.before.stop_loss
        ELSE last.price >= last.before.stop_loss)
    => /\ last.ret.action = "close"
       /\ last.ret.reason = "stop-loss"
       /\ active_trade = None
       /\ last.ret.pnl =
              (IF last.before.action = "BUY"
               THEN last.before.stop_loss - last.before.entry_price
               ELSE last.before.entry_price - last.before.stop_loss)
              * (last.before.size + last.before.partial_size) * 2

(* A stop hit exactly at a stop already trailed to +2R, with a partial     *)
(* tranche outstanding.                                                    *)
C3_Witness ==
    /\ IsUpdate
    /\ last.before.trail_level = 30
    /\ last.before.partial_size > 0
    /\ last.price = last.before.stop_loss
    /\ last.ret.action = "close"

(* C4: an update_trade call on an open position at unrealized R >= 4       *)
(* closes the position in that call, whatever its trail level before.      *)
C4_FourRCloses ==
    IsUpdate
    /\ Sign(last.before.action) * (last.price - last.before.entry_price)
           >= 4 * last.before.risk_distance
    => /\ last.ret.action = "close"
       /\ active_trade = None

(* C5: the stop of an open position is the one its trail level gives: the  *)
(* stop given at open at level 0, entry + 0.5R at 1.5, entry + 1R at 2.0,  *)
(* entry + 2R at 3.0 (minus for Sell); partial_filled holds exactly from   *)
(* level 1.5 on.                                                           *)
C5_StopFollowsLevel ==
    active_trade # None =>
        LET t == active_trade
            up(points) == IF t.action = "BUY" THEN t.entry_price + points
                          ELSE t.entry_price - points
        IN  /\ t.trail_level \in {0, 15, 20, 30}
            /\ t.trail_level = 0  => t.stop_loss = opened.stop_loss
            /\ t.trail_level = 15 => 2 * t.stop_loss = 2 * t.entry_price
                  + (IF t.action = "BUY" THEN 1 ELSE -1) * t.risk_distance
            /\ t.trail_level = 20 => t.stop_loss = up(t.risk_distance)
            /\ t.trail_level = 30 => t.stop_loss = up(2 * t.risk_distance)
            /\ t.partial_filled <=> t.trail_level >= 15

(* A Sell position whose stop has been trailed twice.                      *)
C5_Witness ==
    /\ active_trade # None
    /\ active_trade.action = "SELL"
    /\ active_trade.trail_level = 30
    /\ active_trade.stop_loss = 17960

-----------------------------------------------------------------------------
(* Properties of the control loops, under SpecLoop and SpecAll.            *)

(* C6: at most one position exists at any time.  open_position called      *)
(* while a position is open returns None and leaves that position as it    *)
(* was; generate_signal called while a position is open returns None; a    *)
(* loop iteration that submitted opening orders had read the status idle.  *)
C6_AtMostOnePosition ==
    /\ (last.op = "open_position" /\ last.before # None)
           => (last.ret = None /\ active_trade = last.before)
    /\ (last.op = "generate_signal" /\ last.before # None) => last.ret = None
    /\ tick.submit # "none" => (tick.status = "idle" /\ tick.stage = "opened")

(* C6 witness: open_position has been called on an open position and      *)
(* returned None.                                                          *)
C6_Witness ==
    /\ last.op = "open_position"
    /\ last.before # None
    /\ last.ret = None
    /\ active_trade = last.before

(* The live loop has submitted a whole bracket from the idle status.       *)
LoopOpened ==
    /\ program = "live"
    /\ tick.submit = "ok"
    /\ tick.status = "idle"
    /\ Len(tick.placed) = 3
    /\ active_trade # None

(* C7: when the submission of the opening orders of a signal fails, the    *)
(* position opened for it is rolled back: at the end of that iteration     *)
(* the strategy is idle.                                                   *)
C7_FailedSubmissionRolledBack ==
    tick.submit = "failed" => active_trade = None

(* The orders live at the venue.                                           *)
LiveAtVenue == { id \in DOMAIN venue : venue[id].status = "Submitted" }

(* C8: every partial_close, trail_stop and close returned by update_trade  *)
(* is executed at the venue in the same iteration: a market order of the   *)
(* partial size on partial_close, the protective stop moved to the new     *)
(* stop on trail_stop, a market order on the opposite side for the         *)
(* remaining size on close.                                                *)
C8_ActionsExecutedAtVenue ==
    tick.result # None =>
        /\ tick.result.action = "partial_close" =>
               \E i \in DOMAIN tick.placed :
                   /\ tick.placed[i].orderType = "MKT"
                   /\ tick.placed[i].action = Opposite(opened.action)
                   /\ tick.placed[i].size = tick.result.size
        /\ tick.result.action = "trail_stop" =>
               \E id \in LiveAtVenue :
                   /\ venue[id].orderType = "STP"
                   /\ venue[id].price = tick.result.new_stop_loss
        /\ tick.result.action = "close" =>
               \E i \in DOMAIN tick.placed :
                   /\ tick.placed[i].orderType = "MKT"
                   /\ tick.placed[i].action = Opposite(opened.action)

(* C9: a position does not stay open after an iteration run outside the    *)
(* trading session.                                                        *)
C9_SessionEndForceCloses ==
    (tick.stage # "start" /\ is_trading_session(now) = NoSession)
        => active_trade = None

(* C10: an open position becomes idle only through a close returned by     *)
(* update_trade or through the rollback of a failed submission.            *)
C10_DestroyedOnlyByClose ==
    [][ (active_trade # None /\ active_trade' = None)
            => \/ (tick'.result # None /\ tick'.result.action = "close")
               \/ tick'.submit = "failed" ]_vars

(* The tracked orders of the given bracket roles the venue has reported    *)
(* Filled.                                                                 *)
FilledOfType(types) ==
    { id \in DOMAIN orders.filled : orders.filled[id].type \in types }

(* A step of the loop itself, as against a venue event between two         *)
(* iterations.                                                             *)
IterationStep == tick' # tick \/ now' # now \/ active_trade' # active_trade

(* C11: venue fills are reconciled.  Once the venue has reported the       *)
(* protective stop or the take-profit of the open position Filled, the     *)
(* next iteration of the loop leaves the position closed, with the         *)
(* realized P&L added to daily_pnl.                                        *)
C11_FillsReconciled ==
    [][ ( /\ program = "live"
          /\ active_trade # None
          /\ FilledOfType({"stop", "profit"}) # {}
          /\ IterationStep )
            => /\ active_trade' = None
               /\ tick'.result # None
               /\ tick'.result.action = "close"
               /\ daily_pnl' = daily_pnl + tick'.result.pnl ]_vars

-----------------------------------------------------------------------------
(* Properties of the risk managers, under SpecRisk.                        *)

IsSizeCall == last.op = "calculate_position_size"

RiskPerContract == Abs(last.entry_price - last.stop_loss) * 2

(* C12: calculate_position_size never returns more than MAX_POSITION_SIZE  *)
(* and returns 0 whenever |entry - stop| x 2 <= 0 or equity <= 0, in both  *)
(* risk managers.                                                          *)
C12_SizeBoundedAndZero ==
    IsSizeCall =>
        /\ last.ret <= MAX_POSITION_SIZE
        /\ (RiskPerContract <= 0 \/ last.equity <= 0) => last.ret = 0

(* C13: for equity > 0 and entry # stop the size is                        *)
(* floor((equity x riskPct / 100) / (|entry - stop| x 2)) clamped to       *)
(* [0, MAX_POSITION_SIZE], in both risk managers; for equity 100000, entry *)
(* 18000, stop 17980 the unclamped value is 25 and the size 10.            *)
C13_SizeIsClampedFloor ==
    (IsSizeCall /\ last.equity > 0 /\ last.entry_price # last.stop_loss) =>
        LET amount100 == last.equity * RISK_PERCENTAGE
            unit100   == 100 * RiskPerContract
        IN  /\ last.ret \in 0..MAX_POSITION_SIZE
            /\ last.ret * unit100 <= amount100
            /\ last.ret < MAX_POSITION_SIZE => amount100 < (last.ret + 1) * unit100
            /\ (last.equity = 100000 /\ last.stop_loss = 17980) =>
                   /\ 25 * unit100 <= amount100
                   /\ amount100 < 26 * unit100
                   /\ last.ret = 10

(* C13 witness: the scenario's call on RiskManagerV1.                      *)
C13_Witness ==
    /\ IsSizeCall
    /\ last.manager = "RiskManagerV1"
    /\ last.equity = 100000
    /\ last.entry_price = 18000
    /\ last.stop_loss = 17980
    /\ last.ret = 10

(* C14: should_trade returns false whenever |daily_pnl| >= equity x        *)
(* DAILY_LOSS_LIMIT / 100, a gain counting like a loss, and true otherwise *)
(* when equity is at least 1000; in RiskManagerV1 and, after               *)
(* update_account_info(equity, daily_pnl), in RiskManager.                 *)
C14_ShouldTradeByAbsolutePnl ==
    last.op = "should_trade" =>
        /\ 100 * Abs(last.daily_pnl) >= last.equity * 3 => last.ret = FALSE
        /\ (100 * Abs(last.daily_pnl) < last.equity * 3 /\ last.equity >= 1000)
               => last.ret = TRUE

-----------------------------------------------------------------------------
(* The risk breach in the live loop, under SpecLoop.                       *)

(* The loop's own capital and daily P&L are in breach at the risk check of *)
(* the iteration this step takes: the daily P&L as the new-day block left  *)
(* it.                                                                     *)
BreachAtTick ==
    LET pnl == IF tick'.new_day THEN 0 ELSE daily_pnl IN
    \/ 100 * Abs(pnl) >= 3 * capital
    \/ capital < 1000

(* C15: an iteration whose risk check fails opens no position and submits  *)
(* no opening order, and does not close the position that is open: apart   *)
(* from the new-day reset the position is as it was.                       *)
C15_BreachBlocksEntries ==
    [][ (program = "live" /\ (tick' # tick \/ now' # now) /\ BreachAtTick) =>
            /\ tick'.submit = "none"
            /\ venue' = venue
            /\ orders' = orders
            /\ active_trade = None => active_trade' = None
            /\ (active_trade # None /\ ~tick'.new_day) => active_trade' = active_trade
      ]_vars

(* C15 witness: an iteration has ended at the failed risk check, after a   *)
(* day's gain beyond the limit.                                            *)
C15_Witness ==
    /\ program = "live"
    /\ tick.stage = "risk"
    /\ 100 * daily_pnl >= 3 * capital

-----------------------------------------------------------------------------
(* Properties of the 1-minute series and its derived timeframes            *)
(* (SpecData).                                                             *)

RowOf(df, date) == df[CHOOSE i \in DOMAIN df : df[i].date = date]

(* The last call was an update that reached the venue and got a bar.       *)
UpdateGotBar ==
    /\ program = "data"
    /\ last.op = "update"
    /\ last.connected
    /\ last.bars # NoFrame

(* C16: when update receives a bar whose timestamp is already in the       *)
(* 1-minute series, the series afterwards holds the received values for    *)
(* that timestamp.                                                         *)
C16_RepublishReplaces ==
    (UpdateGotBar /\ last.bars[1].date \in Dates(last.before))
        => /\ last.bars[1].date \in Dates(data_manager.df_1min)
           /\ RowOf(data_manager.df_1min, last.bars[1].date) = last.bars[1]

(* C17: once initialized, the 1-minute series never holds more rows than   *)
(* the retention.                                                          *)
C17_WithinRetention ==
    (program = "data" /\ data_manager.ib # None)
        => Len(data_manager.df_1min) <= Retention

StrictlyIncreasing(df) ==
    \A i \in DOMAIN df : \A j \in DOMAIN df : i < j => df[i].date < df[j].date

(* C18: after an update on an empty or strictly time-ordered 1-minute      *)
(* series, the timestamps of the series are strictly increasing.           *)
C18_TimestampsIncrease ==
    (program = "data" /\ last.op = "update" /\ StrictlyIncreasing(last.before))
        => StrictlyIncreasing(data_manager.df_1min)

(* C18 witness: an update appended a bar to a series that held rows.       *)
C18_Witness ==
    /\ UpdateGotBar
    /\ last.ret
    /\ Len(last.before) >= 2
    /\ StrictlyIncreasing(last.before)
    /\ data_manager.df_1min[Len(data_manager.df_1min)] = last.bars[1]

(* The positions of the 1-minute rows in the window of a derived bar.      *)
WindowRows(tf, d) ==
    { i \in DOMAIN data_manager.df_1min :
        Window(data_manager.df_1min[i].date, Freq[tf]) = d.date }

DerivedBars(tf) ==
    { data_manager.timeframes[tf][k] : k \in DOMAIN data_manager.timeframes[tf] }

(* C19: every derived bar of every timeframe has the open of the first     *)
(* 1-minute row of its window, the close of the last one, the highest      *)
(* high, the lowest low and the sum of the volumes of the window's rows.   *)
C19_DerivedBarAggregatesWindow ==
    program = "data" =>
        \A tf \in DOMAIN Freq : \A d \in DerivedBars(tf) :
            /\ WindowRows(tf, d) # {}
            /\ d.open = data_manager.df_1min[SetMin(WindowRows(tf, d))].open
            /\ d.close = data_manager.df_1min[SetMax(WindowRows(tf, d))].close
            /\ d.high = SetMax({ data_manager.df_1min[i].high : i \in WindowRows(tf, d) })
            /\ d.low = SetMin({ data_manager.df_1min[i].low : i \in WindowRows(tf, d) })
            /\ d.volume = SeqSum([k \in 1..Cardinality(WindowRows(tf, d)) |->
                                    Take(data_manager.df_1min, WindowRows(tf, d))[k].volume])

(* C19 witness: a derived bar over several 1-minute rows whose first and   *)
(* last row differ in open and in close.                                   *)
C19_Witness ==
    /\ program = "data"
    /\ \E tf \in DOMAIN Freq : \E d \in DerivedBars(tf) :
        /\ Cardinality(WindowRows(tf, d)) >= 3
        /\ data_manager.df_1min[SetMin(WindowRows(tf, d))].close
               # data_manager.df_1min[SetMax(WindowRows(tf, d))].close
        /\ data_manager.df_1min[SetMin(WindowRows(tf, d))].open
               # data_manager.df_1min[SetMax(WindowRows(tf, d))].open

(* C20: every derived bar stands for a window all of whose 1-minute rows   *)
(* are present: as many rows as the timeframe has minutes.                 *)
C20_OnlyCompleteWindows ==
    program = "data" =>
        \A tf \in DOMAIN Freq : \A d \in DerivedBars(tf) :
            Cardinality(WindowRows(tf, d)) = Freq[tf]

-----------------------------------------------------------------------------
(* Properties of the bar analysis (SpecBars).                              *)

(* The gaps of the returned list recorded for position i of the frame.     *)
GapsAt(i, type) ==
    { k \in DOMAIN last.ret : last.ret[k].index = i - 1 /\ last.ret[k].type = type }

(* C21: detect_fvg records a bullish gap at bar i exactly when the low of  *)
(* bar i is above the high of bar i-2 and the gap exceeds 0.8 times the    *)
(* mean range of the three bars, a bearish gap exactly when the high of    *)
(* bar i is below the low of bar i-2 with the same test of the magnitude;  *)
(* at most one gap per bar, and every gap has low < high.                  *)
C21_GapRecordedIffLargeEnough ==
    (program = "bars" /\ last.op = "detect_fvg") =>
        /\ \A i \in 3..Len(last.data) :
            /\ GapsAt(i, "bullish") # {}
                 <=> /\ last.data[i].low > last.data[i - 2].high
                     /\ 15 * (last.data[i].low - last.data[i - 2].high)
                            > 4 * RangeSum(last.data, i)
            /\ GapsAt(i, "bearish") # {}
                 <=> /\ last.data[i].high < last.data[i - 2].low
                     /\ 15 * (last.data[i - 2].low - last.data[i].high)
                            > 4 * RangeSum(last.data, i)
            /\ Cardinality(GapsAt(i, "bullish") \cup GapsAt(i, "bearish")) <= 1
        /\ \A k \in DOMAIN last.ret : last.ret[k].low < last.ret[k].high

(* C21 witness: bar 1 with high 100, bar 3 with low 110, mean range 5: the *)
(* bullish gap 100..110 is recorded.                                       *)
C21_Witness ==
    /\ program = "bars"
    /\ last.op = "detect_fvg"
    /\ last.data[1].high = 100
    /\ last.data[3].low = 110
    /\ RangeSum(last.data, 3) = 15
    /\ \E k \in DOMAIN last.ret :
        /\ last.ret[k].type = "bullish"
        /\ last.ret[k].low = 100
        /\ last.ret[k].high = 110

(* C22: on a frame of at least 2 bars the trend is bullish exactly when    *)
(* the last bar's high and low are both above the previous bar's, bearish  *)
(* exactly when both are below, and ranging otherwise; never unknown.      *)
C22_TrendOfTwoBars ==
    (program = "bars" /\ last.op = "trend" /\ Len(last.data) >= 2) =>
        LET n == Len(last.data) IN
        /\ last.ret = "bullish"
             <=> (last.data[n].high > last.data[n - 1].high
                    /\ last.data[n].low > last.data[n - 1].low)
        /\ last.ret = "bearish"
             <=> (last.data[n].high < last.data[n - 1].high
                    /\ last.data[n].low < last.data[n - 1].low)
        /\ last.ret \in {"bullish", "bearish", "ranging"}

(* Higher timeframes first.                                                *)
TimeframeRank(timeframe) ==
    IF timeframe = "daily" THEN 4 ELSE IF timeframe = "hourly" THEN 3
    ELSE IF timeframe = "five_min" THEN 2 ELSE 1

(* C25: a three-bar pattern for which _detect_fvg records a gap on one     *)
(* timeframe is recorded on every lower timeframe too.                     *)
C25_HigherTimeframeStricter ==
    (program = "bars" /\ last.op = "_detect_fvg" /\ last.ret # <<>>) =>
        \A lower \in MTFTimeframes :
            TimeframeRank(lower) < TimeframeRank(last.timeframe)
                => MTF_detect_fvg(last.data, lower) # <<>>

-----------------------------------------------------------------------------
(* Properties of generate_signal on frames of bars (SpecSignal).           *)

SignalReturned ==
    /\ program = "signal"
    /\ last.op = "generate_signal"
    /\ last.ret # None

(* The last 20 bars of the 15min frame handed to the call.                 *)
Recent15 == tail(last.frames["15min"], 20)

LowestRecentLow == SetMin({ Recent15[i].low : i \in DOMAIN Recent15 })
HighestRecentHigh == SetMax({ Recent15[i].high : i \in DOMAIN Recent15 })

(* C23: a signal has the current price as entry, the stop 5 points beyond  *)
(* the lowest recent low (Buy) or the highest recent high (Sell), a        *)
(* positive risk distance |entry - stop|, and the take-profit 4 risk       *)
(* distances from the entry on the other side: stop < entry < take-profit  *)
(* for Buy, the reverse for Sell.                                          *)
C23_SignalLevels ==
    SignalReturned =>
        /\ last.ret.entry_price = last.price
        /\ last.ret.action \in {"BUY", "SELL"}
        /\ last.ret.risk_distance > 0
        /\ last.ret.risk_distance = Abs(last.ret.entry_price - last.ret.stop_loss)
        /\ last.ret.action = "BUY" =>
              /\ last.ret.stop_loss = LowestRecentLow - 5
              /\ last.ret.take_profit = last.ret.entry_price + 4 * last.ret.risk_distance
              /\ last.ret.stop_loss < last.ret.entry_price
              /\ last.ret.entry_price < last.ret.take_profit
        /\ last.ret.action = "SELL" =>
              /\ last.ret.stop_loss = HighestRecentHigh + 5
              /\ last.ret.take_profit = last.ret.entry_price - 4 * last.ret.risk_distance
              /\ last.ret.take_profit < last.ret.entry_price
              /\ last.ret.entry_price < last.ret.stop_loss

(* C23 witness: a Buy signal from a 15min frame of more than 20 bars whose *)
(* oldest bar lies below the lowest low of the last 20.                    *)
C23_Witness ==
    /\ SignalReturned
    /\ last.ret.action = "BUY"
    /\ Len(last.frames["15min"]) > 20
    /\ last.frames["15min"][1].low < LowestRecentLow

(* C24: no signal is returned when the 4hr, 1hr or 15min frame has fewer   *)
(* than 20 bars, when the 15min frame has no gap of the signal's           *)
(* direction, or when the liquidity level on the profit side is not beyond *)
(* the price.                                                              *)
C24_NoSignalWithoutHistoryOrGap ==
    SignalReturned =>
        /\ \A tf \in {"4hr", "1hr", "15min"} :
              tf \in DOMAIN last.frames /\ Len(last.frames[tf]) >= 20
        /\ \E k \in DOMAIN detect_fvg(last.frames["15min"], FVG_SENSITIVITY) :
              detect_fvg(last.frames["15min"], FVG_SENSITIVITY)[k].type
                  = (IF last.ret.action = "BUY" THEN "bullish" ELSE "bearish")
        /\ last.ret.action = "BUY" => HighestRecentHigh > last.price
        /\ last.ret.action = "SELL" => LowestRecentLow < last.price

-----------------------------------------------------------------------------
(* Properties of the running session (SpecSession).                        *)

(* A step of the loop, as against a venue event or a signal.               *)
SessionIteration == IterationStep \/ failed_reconnects' # failed_reconnects

(* C26: after a shutdown signal the loop runs no further iteration but     *)
(* stops: running is cleared, no tracked order is left active, and the     *)
(* venue connection is closed.                                             *)
C26_ShutdownStopsLoop ==
    [][ (program = "session" /\ signalled /\ SessionIteration)
            => /\ ~running'
               /\ DOMAIN orders'.active = {}
               /\ ~ib_connected' ]_vars

(* C27: order-tracking state has a single writer: the tracked orders       *)
(* change only in a step of the main loop, never in a venue callback.      *)
C27_OrdersWrittenByLoopOnly ==
    [][ (program = "session" /\ orders' # orders) => SessionIteration ]_vars

(* The orders the venue still holds open: working, or with a cancel that   *)
(* it has not confirmed.                                                   *)
OpenAtVenue ==
    { id \in DOMAIN venue : venue[id].status \in {"Submitted", "PendingCancel"} }

(* C28: every order still open at the venue is in the local active set.    *)
C28_OpenOrdersTracked ==
    program = "session" => OpenAtVenue \subseteq DOMAIN orders.active

(* C29: once the venue has reported Filled, Cancelled or Rejected for a    *)
(* tracked order, the order is no longer in the active set.                *)
C29_TerminalStatusUntracks ==
    ( /\ program = "session"
      /\ last.op = "order_event"
      /\ last.tracked
      /\ last.status \in {"Filled", "Cancelled", "Rejected"} )
        => last.id \notin DOMAIN orders.active

(* C30: no more than max_reconnect reconnection attempts fail in a row.    *)
C30_ReconnectsBounded ==
    program = "session" => failed_reconnects <= max_reconnect

-----------------------------------------------------------------------------
(* Properties of the connection monitor, under SpecSession.                *)

(* C31: after connect_ibkr, for as long as the venue connection is up, the *)
(* monitor reports connected and the main loop passes its connectivity     *)
(* check: no iteration begun with the connection up ends in the            *)
(* reconnect-wait branch.                                                  *)
C31_ConnectedLoopProceeds ==
    [][ (program = "session" /\ ib_connected /\ SessionIteration)
            => tick'.stage # "not_connected" ]_vars

-----------------------------------------------------------------------------
(* Further properties of the position state machine, under Spec.           *)

(* C32: the P&L a 4R take-profit close reports is a profit in both         *)
(* directions: +4 x risk_distance x (remaining size + partial size) x 2    *)
(* for a Sell position as for a Buy position.                              *)
C32_FourRCloseIsProfit ==
    ( /\ IsUpdate
      /\ last.ret.action = "close"
      /\ last.ret.reason = "4R take-profit" )
        => last.ret.pnl =
               4 * last.before.risk_distance
                 * (last.before.size + last.before.partial_size) * Multiplier

-----------------------------------------------------------------------------
(* Further properties of the control loops, under SpecLoop.                *)

(* C33: an iteration in which update_trade returned partial_close ends     *)
(* without raising, every field the loop reads from the result being       *)
(* present, and adds the realized P&L of the closed half to daily P&L.     *)
C33_PartialCloseBooked ==
    [][ ( /\ program \in {"live", "v1"}
          /\ IterationStep
          /\ tick'.result # None
          /\ tick'.result.action = "partial_close" )
            => /\ tick'.raised = "no"
               /\ HasKey(tick'.result, "pnl")
               /\ daily_pnl' = (IF tick'.new_day THEN 0 ELSE daily_pnl)
                                   + tick'.result.pnl ]_vars

(* An iteration that began with a position open and the venue connected,   *)
(* ran inside the trading session on the same day, and had its bars and a  *)
(* price.                                                                  *)
MonitoringTick ==
    /\ program \in {"live", "v1"}
    /\ IterationStep
    /\ active_trade # None
    /\ program = "live" => monitor_connected /\ ib_connected
    /\ ~tick'.new_day
    /\ tick'.stage \notin {"no_session", "no_data", "no_price"}

C35_BracketExitsOppositeEntry ==
    ( /\ program = "live"
      /\ tick.stage = "opened"
      /\ Len(tick.placed) = 3 )
        => /\ tick.placed[1].orderType = "LMT"
           /\ tick.placed[2].orderType = "STP"
           /\ tick.placed[3].orderType = "LMT"
           /\ tick.placed[2].action = Opposite(tick.placed[1].action)
           /\ tick.placed[3].action = Opposite(tick.placed[1].action)
           /\ tick.placed[2].size = tick.placed[1].size
           /\ tick.placed[3].size = tick.placed[1].size

-----------------------------------------------------------------------------
(* Further properties of the position state machine, under Spec.           *)

(* Size and partial size together are the size given at open.              *)
SizeConserved ==
    active_trade # None
        => /\ active_trade.size + active_trade.partial_size = opened.size
           /\ ~active_trade.partial_filled => active_trade.partial_size = 0

(* A partial close is returned only to a position that had none before,    *)
(* and moves floor(size / 2) contracts from size to partial_size.          *)
PartialCloseOnceAndHalf ==
    (IsUpdate /\ last.ret.action = "partial_close")
        => /\ ~last.before.partial_filled
           /\ last.ret.size = last.before.size \div 2
           /\ active_trade # None
           /\ active_trade.partial_filled
           /\ active_trade.partial_size = last.before.size \div 2
           /\ active_trade.size = last.before.size - last.before.size \div 2

(* Between two states of the same position, only a partial close changes   *)
(* size or partial_size.                                                   *)
SizesChangeOnlyAtPartialClose ==
    [][ ( /\ active_trade # None
          /\ active_trade' # None
          /\ \/ active_trade'.size # active_trade.size
             \/ active_trade'.partial_size # active_trade.partial_size )
            => /\ last'.op = "update_trade"
               /\ last'.ret.action = "partial_close" ]_vars

(* C36: throughout a position's life size + partial_size equals the size   *)
(* given at open: the partial close happens at most once, moves            *)
(* floor(size / 2) contracts from size to partial_size, and no other step  *)
(* changes either field.                                                   *)
C36_SizeConserved ==
    /\ []SizeConserved
    /\ []PartialCloseOnceAndHalf
    /\ SizesChangeOnlyAtPartialClose

(* A position opened with two contracts, halved by its partial close and   *)
(* updated again since.                                                    *)
C36_Witness ==
    /\ active_trade # None
    /\ opened.size = 2
    /\ active_trade.size = 1
    /\ active_trade.partial_size = 1
    /\ IsUpdate
    /\ last.before.partial_filled

-----------------------------------------------------------------------------
(* Further properties of order tracking, under SpecSession.                *)

(* get_summary: the sizes of the three order tables (the filled-quantity   *)
(* total is not part of the tracked state here).                           *)
get_summary(om) ==
    [active |-> Cardinality(DOMAIN om.active),
     filled |-> Cardinality(DOMAIN om.filled),
     cancelled |-> Cardinality(DOMAIN om.cancelled)]

(* C37: every order submit_bracket_order has placed is in exactly one of   *)
(* active_orders, filled_orders and cancelled_orders, so the three counts  *)
(* of get_summary add up to the number of orders placed.                   *)
C37_OrdersPartitioned ==
    program = "session"
        => /\ DOMAIN orders.active \cup DOMAIN orders.filled
                  \cup DOMAIN orders.cancelled = DOMAIN venue
           /\ DOMAIN orders.active \cap DOMAIN orders.filled = {}
           /\ DOMAIN orders.active \cap DOMAIN orders.cancelled = {}
           /\ DOMAIN orders.filled \cap DOMAIN orders.cancelled = {}
           /\ get_summary(orders).active + get_summary(orders).filled
                  + get_summary(orders).cancelled = Len(venue)

-----------------------------------------------------------------------------
(* The signal throttle, under Spec.                                        *)

(* current_time is earlier than t + 300 seconds (times in hours).          *)
BeforeWindowEnd(time, t) == time.hours * 3600 < t.hours * 3600 + 300

(* C38: generate_signal emits at most one signal per 5 minutes: once it    *)
(* has returned a signal at time t, a later call made with a current_time  *)
(* earlier than t + 300 seconds returns no signal, unless reset() was      *)
(* called in between.                                                      *)
C38_OneSignalPerFiveMinutes ==
    [][ ( /\ last'.op = "generate_signal"
          /\ last' # last \/ signal_times' # signal_times
          /\ last'.time # None
          /\ \E t \in signal_times : BeforeWindowEnd(last'.time, t) )
            => last'.ret = None ]_vars

-----------------------------------------------------------------------------
(* Properties of the CLAWAIBKRMNQ and CLAWAMultiTimeframe loops, under     *)
(* SpecMain.                                                               *)

(* current_position moves only in an analyze_and_trade whose order         *)
(* placement returned an order id, after validate_order accepted the size  *)
(* on top of the position's magnitude, and by exactly that size.           *)
PositionMovesOnlyByValidatedOrder ==
    [][ current_position' # current_position
            => /\ last'.op = "analyze_and_trade"
               /\ last'.stage = "ordered"
               /\ last'.size > 0
               /\ Abs(current_position) + last'.size <= MAX_POSITION_SIZE
               /\ Len(venue') = Len(venue) + 1
               /\ current_position' =
                      current_position + Sign(last'.signal.action) * last'.size
      ]_vars

(* C39: in the CLAWAIBKRMNQ and CLAWAMultiTimeframe loops the magnitude of *)
(* current_position never exceeds MAX_POSITION_SIZE after any sequence of  *)
(* executed Buy and Sell orders: an order is placed only when              *)
(* validate_order accepts |current_position| + size <= max, and            *)
(* current_position changes only when the placement returned an order id.  *)
C39_PositionWithinLimit ==
    /\ [](Abs(current_position) <= MAX_POSITION_SIZE)
    /\ PositionMovesOnlyByValidatedOrder

(* A short position built from two executed Sell orders, at the limit,     *)
(* with a further order refused by validate_order.                         *)
C39_Witness ==
    /\ program = "main"
    /\ current_position = -MAX_POSITION_SIZE
    /\ Len(venue) = 2
    /\ last.op = "analyze_and_trade"
    /\ last.stage = "validation_failed"
    /\ last.signal.action = "SELL"

=============================================================================
